---- MODULE Spec2Model ----
(***************************************************************************)
(* Process/PTY lifecycle core of betterprocs: ProcessHandle                *)
(* (src/src/process/handle.rs), ProcessManager (src/src/process/manager.rs)*)
(* and TerminalScreen (src/src/terminal/screen.rs), together with the OS   *)
(* side they talk to (child processes, their PTYs, the reader threads and  *)
(* the mpsc channels).                                                     *)
(*                                                                         *)
(* The main thread is one sequential program: every Manager/Handle call is *)
(* one action, and `op` records the call (with the signals its stops sent, *)
(* in program order).  A call that returns leaves the main thread at       *)
(* "ret", where `op` still describes it; Return then forgets it.           *)
(*                                                                         *)
(* Children and reader threads step while the main thread is idle.  A step *)
(* of theirs during a call leaves the main thread with what it would see   *)
(* had the step been taken just before the call (the step is observed by   *)
(* it) or just after (it is not): stop signals, probes and waits for one   *)
(* child and drops one channel, drain_output empties a channel with        *)
(* try_recv until it finds it empty and then asks try_wait once.           *)
(***************************************************************************)
EXTENDS Integers, Sequences, FiniteSets, TLC

\* ------------------------------------------------------------------ bounds
MaxProcs == 2        \* handles the manager may own
MaxSpawns == 2       \* child processes created over a run (pids 1..MaxSpawns)
MaxChunks == 2       \* chunks the reader threads read from the PTYs over a run
MaxScrollback == 2   \* scrollback capacity of a screen (10_000 in the code)
MaxScroll == 2       \* largest n of a scroll_up(n) request
MaxSize == 2         \* largest rows or cols of a resize request
MaxNames == 2        \* distinct process names a configuration may use
MaxSorted == 3       \* handles of a manager whose loop sorts them
MaxWords == 3        \* pieces (flags, spaces, numbers) a command string is made of
MaxInput == 2        \* bytes written to the PTY of one child over a run

\* exit code portable_pty reports for a child killed by a signal
KilledCode == 1
ExitCodes == {0, 1}

\* the smallest pane App gives a process (pane_size)
MinPane == 1
Sizes == 1..MaxSize
Names == 1..MaxNames

VARIABLES
    processes,   \* ProcessManager.processes: Seq of ProcessHandle
    children,    \* OS side: children[pid] = child process, its reader thread and channel
    pc,          \* position of the main thread
    op,          \* the Manager/Handle call in progress or just finished
    app          \* App: its fields, and the pane its terminal gives a process

vars == <<processes, children, pc, op, app>>

\* ------------------------------------------------- ProcessStatus (types.rs)
NotStarted == [tag |-> "NotStarted", pid |-> 0, exit_code |-> 0]
Running(pid) == [tag |-> "Running", pid |-> pid, exit_code |-> 0]
Stopped(code) == [tag |-> "Stopped", pid |-> 0, exit_code |-> code]
Crashed == [tag |-> "Crashed", pid |-> 0, exit_code |-> 0]

is_running(status) == status.tag = "Running"

\* ---------------------------------------------- TerminalScreen (screen.rs)
\* parser state: the chunks processed so far (fed) and the scrollback length
NewScreen(rows, cols) ==
    [scroll_offset |-> 0, sb_len |-> 0, fed |-> <<>>, rows |-> rows, cols |-> cols]

Min(a, b) == IF a < b THEN a ELSE b

\* an apply_scroll that keeps the offset it is given
apply_scroll_unclamped(screen) == screen

\* set_scrollback clamps to the scrollback length; the clamped value is read back
apply_scroll(screen) ==
    [screen EXCEPT !.scroll_offset = Min(screen.scroll_offset, screen.sb_len)]

scroll_up(screen, n) ==
    apply_scroll([screen EXCEPT !.scroll_offset = screen.scroll_offset + n])

\* saturating_sub
Monus(a, b) == IF a > b THEN a - b ELSE 0

\* a scroll_down that goes one line too far
scroll_down_one_more(screen, n) ==
    apply_scroll([screen EXCEPT !.scroll_offset = Monus(screen.scroll_offset, n + 1)])

scroll_down(screen, n) ==
    apply_scroll([screen EXCEPT !.scroll_offset = Monus(screen.scroll_offset, n)])

\* scroll_to_bottom that leaves the offset where the user scrolled to
scroll_to_bottom_keeps(screen) == screen

scroll_to_bottom(screen) ==
    apply_scroll([screen EXCEPT !.scroll_offset = 0])

\* a resize that keeps the larger of the stored and the requested dimension
resize_grows(screen, rows, cols) ==
    [screen EXCEPT !.rows = IF rows > screen.rows THEN rows ELSE screen.rows,
                   !.cols = IF cols > screen.cols THEN cols ELSE screen.cols]

\* TerminalScreen::resize: the stored and the parser's dimensions are set as asked
resize(screen, rows, cols) == [screen EXCEPT !.rows = rows, !.cols = cols]

\* process_bytes: the parser consumes chunk c; every chunk is one line of output,
\* which scrolls one line off into the scrollback, up to its capacity
process_bytes(screen, c) ==
    [screen EXCEPT !.fed = Append(screen.fed, c),
                   !.sb_len = Min(screen.sb_len + 1, MaxScrollback)]

\* ----------------------------------------------------------------- OS side
\* a child for which no reader thread is ever started
NewChild_no_thread(owner, ign, threaded, pty) ==
    [owner |-> owner, state |-> "alive", code |-> 0, ignores |-> ign,
     thread |-> "none",
     rx |-> threaded, nread |-> 0, queue |-> <<>>, pty |-> pty, input |-> <<>>]

\* a child just spawned for handle `owner`; threaded: with reader thread and channel
\* pty: the size (rows, cols) of its PTY; input: the bytes written to its PTY
NewChild(owner, ign, threaded, pty) ==
    [owner |-> owner, state |-> "alive", code |-> 0, ignores |-> ign,
     thread |-> IF threaded THEN "running" ELSE "none",
     rx |-> threaded, nread |-> 0, queue |-> <<>>, pty |-> pty,
     input |-> <<>>]

\* the child is dead and waits to be reaped (what it did with signals is past)
Exited(kid, code) == [kid EXCEPT !.state = "zombie", !.code = code, !.ignores = FALSE]

\* killpg(pid, SIGTERM): a child that does not ignore it dies at once
terminate_process_group(kids, pid) ==
    IF kids[pid].state = "alive" /\ ~kids[pid].ignores
    THEN [kids EXCEPT ![pid] = Exited(@, KilledCode)]
    ELSE kids

\* killpg(pid, SIGKILL)
force_kill_process_group(kids, pid) ==
    IF kids[pid].state = "alive"
    THEN [kids EXCEPT ![pid] = Exited(@, KilledCode)]
    ELSE kids

\* kill(pid, 0): succeeds while the pid is in the process table (zombies too)
is_process_alive(kids, pid) == kids[pid].state # "reaped"

\* the Receiver is dropped: the channel and what it still buffers are gone
DropRx(kids, p) ==
    IF p = 0 THEN kids ELSE [kids EXCEPT ![p].rx = FALSE, ![p].queue = <<>>]

\* the PTY master is closed: the session of a live child gets SIGHUP, and the PTY
\* has no size any more
DropMaster(kids, p) ==
    IF p = 0 THEN kids
    ELSE [terminate_process_group(kids, p) EXCEPT ![p].pty = <<0, 0>>]

Reap(kids, p) == [kids EXCEPT ![p].state = "reaped", ![p].code = 0]

\* ------------------------------------------- ProcessHandle (handle.rs)
\* ProcessHandle::new before its `if autostart { spawn }`.  Of the config the
\* handle keeps what is read after construction; hid tells the handles apart.
NewHandle(hid, name, autorestart, rows, cols) ==
    [hid |-> hid,
     config |-> [name |-> name, autorestart |-> autorestart],
     status |-> NotStarted,
     screen |-> NewScreen(rows, cols),
     child |-> 0, master_pty |-> 0, output_rx |-> 0, reader_thread |-> 0]

SpawnOutcomes == {"ok", "openpty", "spawn_command", "clone_reader"}

\* spawn that marks the handle Crashed when one of its `?` fails
spawn_marks_failure(h, kids, outcome, ign) ==
    LET pid == Len(kids) + 1
        size == <<h.screen.rows, h.screen.cols>>
        hf == [h EXCEPT !.status = Crashed]
    IN
    CASE outcome \in {"openpty", "spawn_command"} ->
            [h |-> hf, kids |-> kids, ok |-> FALSE]
      [] outcome = "clone_reader" ->
            [h |-> hf,
             kids |-> DropMaster(Append(kids, NewChild(h.hid, ign, FALSE, size)), pid),
             ok |-> FALSE]
      [] outcome = "ok" ->
            [h |-> [h EXCEPT !.child = pid, !.master_pty = pid,
                             !.output_rx = pid, !.reader_thread = pid,
                             !.status = Running(pid),
                             !.screen = scroll_to_bottom(h.screen)],
             kids |-> Append(DropRx(DropMaster(kids, h.master_pty), h.output_rx),
                             NewChild(h.hid, ign, TRUE, size)),
             ok |-> TRUE]

\* a spawn that keeps the channel receiver the handle has, if it has one
spawn_keeps_channel(h, kids, outcome, ign) ==
    LET pid == Len(kids) + 1
        size == <<h.screen.rows, h.screen.cols>>
    IN
    CASE outcome \in {"openpty", "spawn_command"} ->
            [h |-> h, kids |-> kids, ok |-> FALSE]
      [] outcome = "clone_reader" ->
            [h |-> h,
             kids |-> DropMaster(Append(kids, NewChild(h.hid, ign, FALSE, size)), pid),
             ok |-> FALSE]
      [] outcome = "ok" ->
            [h |-> [h EXCEPT !.child = pid, !.master_pty = pid,
                             !.output_rx = IF h.output_rx # 0 THEN h.output_rx ELSE pid,
                             !.reader_thread = pid,
                             !.status = Running(pid),
                             !.screen = scroll_to_bottom(h.screen)],
             kids |-> Append(DropMaster(kids, h.master_pty),
                             NewChild(h.hid, ign, TRUE, size)),
             ok |-> TRUE]

\* ProcessHandle::spawn after its leading `if is_running { stop(true)? }`.
\* outcome names the `?` that fails, if any.
spawn(h, kids, outcome, ign) ==
    LET pid == Len(kids) + 1
        \* the PTY is opened with the rows and cols of the screen
        size == <<h.screen.rows, h.screen.cols>>
    IN
    CASE outcome \in {"openpty", "spawn_command"} ->
            [h |-> h, kids |-> kids, ok |-> FALSE]
      [] outcome = "clone_reader" ->
            \* the child runs; pty_pair and child are dropped by the early return
            [h |-> h,
             kids |-> DropMaster(Append(kids, NewChild(h.hid, ign, FALSE, size)), pid),
             ok |-> FALSE]
      [] outcome = "ok" ->
            [h |-> [h EXCEPT !.child = pid, !.master_pty = pid,
                             !.output_rx = pid, !.reader_thread = pid,
                             !.status = Running(pid),
                             !.screen = scroll_to_bottom(h.screen)],
             kids |-> Append(DropRx(DropMaster(kids, h.master_pty), h.output_rx),
                             NewChild(h.hid, ign, TRUE, size)),
             ok |-> TRUE]

\* stop that sends the forced signal at once, graceful or not
stop_signals_no_grace(kids, pid, graceful) ==
    [kids |-> force_kill_process_group(kids, pid), log |-> <<"force_kill">>]

\* the signalling part of stop: what is sent to the group of pid, in order
stop_signals(kids, pid, graceful) ==
    IF graceful
    THEN LET k1 == terminate_process_group(kids, pid) IN
         IF is_process_alive(k1, pid)
         THEN [kids |-> force_kill_process_group(k1, pid),
               log |-> <<"terminate", "sleep", "probe", "force_kill">>]
         ELSE [kids |-> k1, log |-> <<"terminate", "sleep", "probe">>]
    ELSE [kids |-> force_kill_process_group(kids, pid), log |-> <<"force_kill">>]

\* a failed wait() that resets the handle to NotStarted
reaped_status_resets(wait_ok, code) == IF wait_ok THEN Stopped(code) ELSE NotStarted

\* a stop that takes a wait() that failed for one that succeeded
reaped_status_ignores_error(wait_ok, code) == Stopped(code)

\* the status stop records once child.wait() has returned
reaped_status(wait_ok, code) == IF wait_ok THEN Stopped(code) ELSE Crashed

NoStop ==
    [hid |-> 0, graceful |-> FALSE, pid |-> 0, ignored |-> FALSE,
     wait_ok |-> FALSE, code |-> 0, log |-> <<>>]

\* a stop that releases the resource fields whatever the status is
stop_releases_always(h, kids, graceful, wait_ok) ==
    IF ~is_running(h.status)
    THEN [h |-> [h EXCEPT !.child = 0, !.master_pty = 0,
                          !.output_rx = 0, !.reader_thread = 0],
          kids |-> DropRx(DropMaster(kids, h.master_pty), h.output_rx),
          call |-> NoStop, hang |-> FALSE]
    ELSE
    LET pid == h.status.pid
        sig == stop_signals(kids, pid, graceful)
        k2 == sig.kids
        waited == h.child # 0
        st == IF waited THEN reaped_status(wait_ok, k2[h.child].code) ELSE h.status
        k3 == IF waited THEN Reap(k2, h.child) ELSE k2
    IN [h |-> [h EXCEPT !.status = st, !.child = 0, !.master_pty = 0,
                        !.output_rx = 0, !.reader_thread = 0],
        kids |-> DropRx(DropMaster(k3, h.master_pty), h.output_rx),
        call |-> [hid |-> h.hid, graceful |-> graceful, pid |-> pid,
                  ignored |-> graceful /\ kids[pid].state = "alive" /\ kids[pid].ignores,
                  wait_ok |-> waited /\ wait_ok,
                  code |-> IF waited THEN k2[h.child].code ELSE 0,
                  log |-> sig.log \o (IF waited THEN <<"wait", "status">> ELSE <<>>)
                          \o <<"release">>],
        hang |-> waited /\ wait_ok /\ k2[h.child].state = "alive"]

\* ProcessHandle::stop(graceful).  wait_ok: child.wait() returns Ok; it returns
\* Err when the child is no longer there to be waited for (ECHILD).
\* hang: wait() would block for ever, the child being alive still.
stop(h, kids, graceful, wait_ok) ==
    IF ~is_running(h.status)
    THEN [h |-> h, kids |-> kids, call |-> NoStop, hang |-> FALSE]
    ELSE
    LET pid == h.status.pid
        sig == stop_signals(kids, pid, graceful)
        k2 == sig.kids
        waited == h.child # 0
        st == IF waited THEN reaped_status(wait_ok, k2[h.child].code) ELSE h.status
        k3 == IF waited THEN Reap(k2, h.child) ELSE k2
    IN [h |-> [h EXCEPT !.status = st, !.child = 0, !.master_pty = 0,
                        !.output_rx = 0, !.reader_thread = 0],
        kids |-> DropRx(DropMaster(k3, h.master_pty), h.output_rx),
        call |-> [hid |-> h.hid, graceful |-> graceful, pid |-> pid,
                  ignored |-> graceful /\ kids[pid].state = "alive" /\ kids[pid].ignores,
                  wait_ok |-> waited /\ wait_ok,
                  code |-> IF waited THEN k2[h.child].code ELSE 0,
                  log |-> sig.log \o (IF waited THEN <<"wait", "status">> ELSE <<>>)
                          \o <<"release">>],
        hang |-> waited /\ wait_ok /\ k2[h.child].state = "alive"]

\* a receiver that takes the chunk sent last
try_recv_newest(queue) == queue[Len(queue)]

\* what try_recv takes from a channel: the chunk sent first
try_recv(queue) == Head(queue)

\* a drain that takes one chunk from the channel and leaves the loop
feed_first(screen, rx, queue) ==
    IF queue = <<>> THEN screen
    ELSE process_bytes(screen, <<rx, try_recv(queue)>>)

\* the loop `while let Ok(data) = rx.try_recv() { process_bytes(data) }` on channel rx
RECURSIVE feed_all(_, _, _)
feed_all(screen, rx, queue) ==
    IF queue = <<>> THEN screen
    ELSE LET c == try_recv(queue) IN
         feed_all(process_bytes(screen, <<rx, c>>), rx,
                  SelectSeq(queue, LAMBDA x : x # c))

\* the status drain_output gives a child that exited with `code`
exit_status(code) == IF code = 0 THEN Stopped(code) ELSE Crashed

WriteOutcomes == {"ok", "take_writer", "write_all"}

\* a write_input that marks the handle Crashed when the write fails
write_input_marks_failure(h, kids, data, outcome, n) ==
    IF h.master_pty = 0
    THEN [h |-> h, kids |-> kids, ok |-> TRUE]
    ELSE CASE outcome = "take_writer" ->
                [h |-> [h EXCEPT !.status = Crashed], kids |-> kids, ok |-> FALSE]
           [] outcome = "write_all" ->
                [h |-> [h EXCEPT !.status = Crashed],
                 kids |-> [kids EXCEPT ![h.master_pty].input = @ \o SubSeq(data, 1, n)],
                 ok |-> FALSE]
           [] outcome = "ok" ->
                [h |-> h,
                 kids |-> [kids EXCEPT ![h.master_pty].input = @ \o data],
                 ok |-> TRUE]

\* ProcessHandle::write_input(data).  outcome names the `?` that fails, if any;
\* n: how many bytes of data a failing write_all had written before it failed
write_input(h, kids, data, outcome, n) ==
    IF h.master_pty = 0
    THEN [h |-> h, kids |-> kids, ok |-> TRUE]
    ELSE CASE outcome = "take_writer" ->
                [h |-> h, kids |-> kids, ok |-> FALSE]
           [] outcome = "write_all" ->
                [h |-> h,
                 kids |-> [kids EXCEPT ![h.master_pty].input = @ \o SubSeq(data, 1, n)],
                 ok |-> FALSE]
           [] outcome = "ok" ->
                [h |-> h,
                 kids |-> [kids EXCEPT ![h.master_pty].input = @ \o data],
                 ok |-> TRUE]

\* a drain_output that keeps the PTY master of a child it found exited
drain_output_keeps_master(h, kids, wait_ok) ==
    LET rx == h.output_rx
        had == rx # 0 /\ kids[rx].queue # <<>>
        h1 == IF had THEN [h EXCEPT !.screen = feed_all(h.screen, rx, kids[rx].queue)]
              ELSE h
        k1 == IF had THEN [kids EXCEPT ![rx].queue = <<>>] ELSE kids
        pid == h.child
    IN IF pid # 0 /\ k1[pid].state = "zombie" /\ wait_ok
       THEN [h |-> [h1 EXCEPT !.status = exit_status(k1[pid].code), !.child = 0],
             kids |-> Reap(k1, pid),
             had_output |-> had]
       ELSE [h |-> h1, kids |-> k1, had_output |-> had]

\* ProcessHandle::drain_output; wait_ok: try_wait() does not return Err
drain_output(h, kids, wait_ok) ==
    LET rx == h.output_rx
        had == rx # 0 /\ kids[rx].queue # <<>>
        h1 == IF had THEN [h EXCEPT !.screen = feed_all(h.screen, rx, kids[rx].queue)]
              ELSE h
        k1 == IF had THEN [kids EXCEPT ![rx].queue = <<>>] ELSE kids
        pid == h.child
    IN IF pid # 0 /\ k1[pid].state = "zombie" /\ wait_ok
       THEN [h |-> [h1 EXCEPT !.status = exit_status(k1[pid].code),
                              !.child = 0, !.master_pty = 0],
             kids |-> DropMaster(Reap(k1, pid), h.master_pty),
             had_output |-> had]
       ELSE [h |-> h1, kids |-> k1, had_output |-> had]

\* resize_pty that hands the requested size to the screen as it is
resize_pty_as_asked(h, kids, rows, cols) ==
    [h |-> [h EXCEPT !.screen = resize(h.screen, rows, cols)],
     kids |-> IF h.master_pty # 0
              THEN [kids EXCEPT ![h.master_pty].pty = <<rows, cols>>]
              ELSE kids]

\* ProcessHandle::resize_pty: the screen only grows, an open PTY gets the size asked
resize_pty(h, kids, rows, cols) ==
    LET screen_cols == IF h.screen.cols > cols THEN h.screen.cols ELSE cols
        screen_rows == IF h.screen.rows > rows THEN h.screen.rows ELSE rows
    IN [h |-> [h EXCEPT !.screen = resize(h.screen, screen_rows, screen_cols)],
        kids |-> IF h.master_pty # 0
                 THEN [kids EXCEPT ![h.master_pty].pty = <<rows, cols>>]
                 ELSE kids]

\* the record of a call on the handle at index i (0: on the manager): its name, the
\* status and the scroll offset of that handle when the call was made, the hids of
\* the handles spawn was called on and of those on which it failed, the stop calls
\* it made, and what it returned; its other arguments (arg), the order of the
\* handles and the rows and cols of that handle's screen when it was made,
\* the number it returned (value), and the hids of the handles whose try_wait()
\* returned Err in it (wait_errs) and of those whose child it found exited
\* (exits), and the list of ports it returned (ports)
NewOp(name, i) ==
    [name |-> name, h |-> i,
     pre |-> IF i \in 1..Len(processes) THEN processes[i].status ELSE NotStarted,
     pre_scroll |-> IF i \in 1..Len(processes)
                    THEN processes[i].screen.scroll_offset ELSE 0,
     attempted |-> {}, failed |-> {}, stops |-> <<>>, result |-> "pending",
     arg |-> <<>>, order |-> [j \in 1..Len(processes) |-> processes[j].hid],
     pre_size |-> IF i \in 1..Len(processes)
                  THEN <<processes[i].screen.rows, processes[i].screen.cols>>
                  ELSE <<0, 0>>,
     value |-> 0, wait_errs |-> {}, exits |-> {}, ports |-> <<>>]

NoOp ==
    [name |-> "none", h |-> 0, pre |-> NotStarted, pre_scroll |-> 0,
     attempted |-> {}, failed |-> {}, stops |-> <<>>, result |-> "ok",
     arg |-> <<>>, order |-> <<>>, pre_size |-> <<0, 0>>, value |-> 0,
     wait_errs |-> {}, exits |-> {}, ports |-> <<>>]

\* ---------------------------------------------------------------- initial
\* App::new, but for the processes it adds: should_quit, auto_exit and
\* ui_state.selected_process; pane: the rows and cols pane_size makes of the
\* terminal's size; stop_alls: how often run has called stop_all; quit: a Quit
\* action has been dispatched
NewApp(auto_exit) ==
    [should_quit |-> FALSE, auto_exit |-> auto_exit, selected_process |-> 0,
     pane |-> <<MinPane, MinPane>>, stop_alls |-> 0, quit |-> FALSE]

Init ==
    /\ processes = <<>>
    /\ children = <<>>
    /\ pc = "new"
    /\ op = NoOp
    /\ app = NewApp(FALSE)

\* ------------------------------------------------ ProcessHandle::spawn
\* the body of spawn on the handle at index i (not Running), ending call `o`
SpawnNow(i, o) ==
    \E outcome \in SpawnOutcomes, ign \in BOOLEAN :
        LET r == spawn(processes[i], children, outcome, ign) IN
        /\ Len(r.kids) <= MaxSpawns
        /\ processes' = [processes EXCEPT ![i] = r.h]
        /\ children' = r.kids
        /\ op' = [o EXCEPT !.attempted = {processes[i].hid},
                           !.failed = IF r.ok THEN {} ELSE {processes[i].hid},
                           !.result = IF r.ok THEN "ok" ELSE "err"]
        /\ pc' = "ret"
        /\ UNCHANGED app

\* a spawn or restart that goes on to the spawn body without the stop
SpawnCallNoStop(name, i) ==
    /\ pc = "idle"
    /\ i \in 1..Len(processes)
    /\ SpawnNow(i, NewOp(name, i))

\* handle.spawn() and handle.restart() on the handle at index i: both stop(true) a
\* Running handle first (restart by its own stop, spawn by its leading one), and
\* go on to the spawn body
SpawnCall(name, i) ==
    /\ pc = "idle"
    /\ i \in 1..Len(processes)
    /\ IF is_running(processes[i].status)
       THEN \E wait_ok \in BOOLEAN :
            LET r == stop(processes[i], children, TRUE, wait_ok) IN
            /\ ~r.hang
            /\ processes' = [processes EXCEPT ![i] = r.h]
            /\ children' = r.kids
            /\ op' = [NewOp(name, i) EXCEPT !.stops = <<r.call>>]
            /\ pc' = "spawn"
            /\ UNCHANGED app
       ELSE SpawnNow(i, NewOp(name, i))

\* spawn goes on after the stop it began with
SpawnStep ==
    /\ pc = "spawn"
    /\ SpawnNow(op.h, op)

\* ---------------------------------------------------- ProcessManager
\* an add_process that puts the new handle before the others
AddConfiguredFront(n, names, autorestarts) ==
    /\ pc = "new"
    /\ Len(processes) < n
    /\ \E name \in names, autostart \in BOOLEAN, autorestart \in autorestarts :
        LET i == Len(processes) + 1
            h0 == NewHandle(i, name, autorestart, MinPane, MinPane)
            o == NewOp("add", i)
        IN IF autostart
           THEN \E outcome \in SpawnOutcomes, ign \in BOOLEAN :
                    LET r == spawn(h0, children, outcome, ign) IN
                    /\ Len(r.kids) <= MaxSpawns
                    /\ processes' = <<r.h>> \o processes
                    /\ children' = r.kids
                    /\ op' = [o EXCEPT !.attempted = {i},
                                       !.failed = IF r.ok THEN {} ELSE {i},
                                       !.result = "ok"]
           ELSE /\ processes' = <<h0>> \o processes
                /\ op' = [o EXCEPT !.result = "ok"]
                /\ UNCHANGED children
    /\ UNCHANGED <<pc, app>>

\* ProcessManager::add_process with a config whose name is one of `names` and
\* whose autorestart is one of `autorestarts`, while the manager owns fewer than
\* n handles.  App::new adds every configured process before the loop runs, each
\* with the pane's rows and cols.
AddConfigured(n, names, autorestarts) ==
    /\ pc = "new"
    /\ Len(processes) < n
    /\ \E name \in names, autostart \in BOOLEAN, autorestart \in autorestarts :
        LET i == Len(processes) + 1
            h0 == NewHandle(i, name, autorestart, MinPane, MinPane)
            o == NewOp("add", i)
        IN IF autostart
           THEN \E outcome \in SpawnOutcomes, ign \in BOOLEAN :
                    LET r == spawn(h0, children, outcome, ign) IN
                    /\ Len(r.kids) <= MaxSpawns
                    /\ processes' = Append(processes, r.h)
                    /\ children' = r.kids
                    /\ op' = [o EXCEPT !.attempted = {i},
                                       !.failed = IF r.ok THEN {} ELSE {i},
                                       !.result = "ok"]
           ELSE /\ processes' = Append(processes, h0)
                /\ op' = [o EXCEPT !.result = "ok"]
                /\ UNCHANGED children
    /\ UNCHANGED <<pc, app>>

\* the processes of a configuration that names each differently
AddProcessUpTo(n) == AddConfigured(n, {Len(processes) + 1}, BOOLEAN)

AddProcess == AddProcessUpTo(MaxProcs)

\* a manager of one process
AddOnlyProcess == AddProcessUpTo(1)

\* App::run is entered: from here on the manager's operations are dispatched
Run ==
    /\ pc = "new"
    /\ pc' = "idle"
    /\ op' = NoOp
    /\ UNCHANGED <<processes, children, app>>

\* the call is over: the main thread is back in the loop
Return ==
    /\ pc = "ret"
    /\ pc' = "idle"
    /\ op' = NoOp
    /\ UNCHANGED <<processes, children, app>>

Start == \E i \in 1..MaxProcs : SpawnCall("start", i)

Restart == \E i \in 1..MaxProcs : SpawnCall("restart", i)

\* ProcessManager::stop / force_kill: handle.stop(graceful) on the handle at index i
StopCall(name, graceful) ==
    /\ pc = "idle"
    /\ \E i \in 1..Len(processes), wait_ok \in BOOLEAN :
        LET r == stop(processes[i], children, graceful, wait_ok) IN
        /\ ~r.hang
        /\ processes' = [processes EXCEPT ![i] = r.h]
        /\ children' = r.kids
        /\ op' = [NewOp(name, i) EXCEPT
                    !.stops = IF r.call = NoStop THEN <<>> ELSE <<r.call>>,
                    !.result = "ok"]
    /\ pc' = "ret"
    /\ UNCHANGED app

Stop == StopCall("stop", TRUE)

ForceKill == StopCall("force_kill", FALSE)

\* a stop_all that returns after the first handle it has stopped
StopAllFirst(i, st, wait_ok) ==
    LET run == {j \in i..Len(st.procs) : is_running(st.procs[j].status)} IN
    IF run = {} THEN st
    ELSE LET j == CHOOSE k \in run : \A m \in run : k <= m
             r == stop(st.procs[j], st.kids, TRUE, wait_ok[j])
         IN [procs |-> [st.procs EXCEPT ![j] = r.h], kids |-> r.kids,
             stops |-> Append(st.stops, r.call), hang |-> st.hang \/ r.hang]

\* ProcessManager::stop_all from index i on: stop(true) on every Running handle
RECURSIVE StopAllFrom(_, _, _)
StopAllFrom(i, st, wait_ok) ==
    IF i > Len(st.procs) THEN st
    ELSE IF is_running(st.procs[i].status)
    THEN LET r == stop(st.procs[i], st.kids, TRUE, wait_ok[i]) IN
         StopAllFrom(i + 1,
                     [procs |-> [st.procs EXCEPT ![i] = r.h],
                      kids |-> r.kids,
                      stops |-> Append(st.stops, r.call),
                      hang |-> st.hang \/ r.hang],
                     wait_ok)
    ELSE StopAllFrom(i + 1, st, wait_ok)

\* Drop for ProcessManager: stop_all(), and the supervisor is gone
Drop ==
    /\ pc = "idle"
    /\ LET run == {i \in 1..Len(processes) : is_running(processes[i].status)} IN
       \E wait_ok \in [run -> BOOLEAN] :
        LET r == StopAllFrom(1, [procs |-> processes, kids |-> children,
                                 stops |-> <<>>, hang |-> FALSE], wait_ok)
        IN /\ ~r.hang
           /\ processes' = r.procs
           /\ children' = r.kids
           /\ op' = [NewOp("drop", 0) EXCEPT !.stops = r.stops, !.result = "ok"]
    /\ pc' = "exited"
    /\ UNCHANGED app

\* check_autorestart without its NotStarted test
autorestart_due_any(h) ==
    /\ h.config.autorestart
    /\ ~is_running(h.status)

\* check_autorestart that restarts crashed handles only
autorestart_due_crashed(h) ==
    /\ h.config.autorestart
    /\ h.status.tag = "Crashed"

\* the condition under which check_autorestart spawns handle h
autorestart_due(h) ==
    /\ h.config.autorestart
    /\ ~is_running(h.status)
    /\ h.status.tag # "NotStarted"

\* a check_autorestart that returns at the first spawn that fails
RECURSIVE AutoFromAborts(_, _, _)
AutoFromAborts(i, st, choice) ==
    IF i > Len(st.procs) THEN st
    ELSE IF autorestart_due(st.procs[i])
    THEN LET r == spawn(st.procs[i], st.kids, choice[i][1], choice[i][2])
             st2 == [procs |-> [st.procs EXCEPT ![i] = r.h],
                     kids |-> r.kids,
                     attempted |-> st.attempted \cup {st.procs[i].hid},
                     failed |-> IF r.ok THEN st.failed
                                ELSE st.failed \cup {st.procs[i].hid}]
         IN IF r.ok THEN AutoFromAborts(i + 1, st2, choice) ELSE st2
    ELSE AutoFromAborts(i + 1, st, choice)

RECURSIVE AutoFrom(_, _, _)
AutoFrom(i, st, choice) ==
    IF i > Len(st.procs) THEN st
    ELSE IF autorestart_due(st.procs[i])
    THEN LET r == spawn(st.procs[i], st.kids, choice[i][1], choice[i][2]) IN
         AutoFrom(i + 1,
                  [procs |-> [st.procs EXCEPT ![i] = r.h],
                   kids |-> r.kids,
                   attempted |-> st.attempted \cup {st.procs[i].hid},
                   failed |-> IF r.ok THEN st.failed
                              ELSE st.failed \cup {st.procs[i].hid}],
                  choice)
    ELSE AutoFrom(i + 1, st, choice)

\* ProcessManager::check_autorestart
CheckAutorestart ==
    /\ pc = "idle"
    /\ LET due == {i \in 1..Len(processes) : autorestart_due(processes[i])} IN
       \E choice \in [due -> SpawnOutcomes \X BOOLEAN] :
            LET r == AutoFrom(1, [procs |-> processes, kids |-> children,
                                  attempted |-> {}, failed |-> {}], choice)
            IN /\ Len(r.kids) <= MaxSpawns
               /\ processes' = r.procs
               /\ children' = r.kids
               /\ op' = [NewOp("check_autorestart", 0) EXCEPT
                            !.attempted = r.attempted, !.failed = r.failed,
                            !.result = "ok"]
    /\ pc' = "ret"
    /\ UNCHANGED app

\* a drain_output that skips the handles after the first that had output
\* (`any_output || handle.drain_output()`)
RECURSIVE DrainFromShort(_, _, _)
DrainFromShort(i, st, wait_ok) ==
    IF i > Len(st.procs) \/ st.any_output THEN st
    ELSE LET r == drain_output(st.procs[i], st.kids, wait_ok[i]) IN
         DrainFromShort(i + 1,
                   [procs |-> [st.procs EXCEPT ![i] = r.h],
                    kids |-> r.kids,
                    any_output |-> st.any_output \/ r.had_output,
                    wait_errs |-> IF st.procs[i].child # 0 /\ ~wait_ok[i]
                                  THEN st.wait_errs \cup {st.procs[i].hid}
                                  ELSE st.wait_errs,
                    exits |-> IF st.procs[i].child # 0 /\ r.h.child = 0
                              THEN st.exits \cup {st.procs[i].hid}
                              ELSE st.exits],
                   wait_ok)

RECURSIVE DrainFrom(_, _, _)
DrainFrom(i, st, wait_ok) ==
    IF i > Len(st.procs) THEN st
    ELSE LET r == drain_output(st.procs[i], st.kids, wait_ok[i]) IN
         DrainFrom(i + 1,
                   [procs |-> [st.procs EXCEPT ![i] = r.h],
                    kids |-> r.kids,
                    any_output |-> st.any_output \/ r.had_output,
                    wait_errs |-> IF st.procs[i].child # 0 /\ ~wait_ok[i]
                                  THEN st.wait_errs \cup {st.procs[i].hid}
                                  ELSE st.wait_errs,
                    exits |-> IF st.procs[i].child # 0 /\ r.h.child = 0
                              THEN st.exits \cup {st.procs[i].hid}
                              ELSE st.exits],
                   wait_ok)

\* ProcessManager::drain_output: handle.drain_output() on every handle in order
DrainOutput ==
    /\ pc = "idle"
    /\ \E wait_ok \in [1..Len(processes) -> BOOLEAN] :
        LET r == DrainFrom(1, [procs |-> processes, kids |-> children,
                               any_output |-> FALSE, wait_errs |-> {},
                               exits |-> {}], wait_ok)
        IN /\ processes' = r.procs
           /\ children' = r.kids
           /\ op' = [NewOp("drain_output", 0) EXCEPT
                        !.result = IF r.any_output THEN "true" ELSE "false",
                        !.wait_errs = r.wait_errs, !.exits = r.exits]
    /\ pc' = "ret"
    /\ UNCHANGED app

\* Action::ScrollUp(n) on the handle at index i: handle.screen.scroll_up(n)
ScrollUp ==
    /\ pc = "idle"
    /\ \E i \in 1..Len(processes), n \in 1..MaxScroll :
        /\ processes' = [processes EXCEPT ![i].screen = scroll_up(@, n)]
        /\ op' = [NewOp("scroll_up", i) EXCEPT !.result = "ok"]
    /\ pc' = "ret"
    /\ UNCHANGED <<children, app>>

\* ------------------------------------------- reader thread (read_pty_output)
RECURSIVE TotalRead(_)
TotalRead(kids) ==
    IF kids = <<>> THEN 0 ELSE Head(kids).nread + TotalRead(Tail(kids))

\* tx.send(chunk): the chunk joins the channel behind those already sent
send(queue, c) == Append(queue, c)

\* reader.read returns n > 0 bytes; the chunk is sent, or the send fails
ReaderRead ==
    /\ pc = "idle"
    /\ \E p \in 1..Len(children) :
        /\ children[p].thread = "running"
        /\ TotalRead(children) < MaxChunks
        /\ children' = [children EXCEPT ![p] =
              IF @.rx
              THEN [@ EXCEPT !.nread = @ + 1, !.queue = send(@, children[p].nread + 1)]
              ELSE [@ EXCEPT !.nread = @ + 1, !.thread = "ended"]]
    /\ UNCHANGED <<processes, pc, op, app>>

\* a reader that reads again after a read that returned 0 or an error
ReaderEndRetries(p) ==
    /\ pc = "idle"
    /\ p \in 1..Len(children)
    /\ children[p].thread = "running"
    /\ children[p].state # "alive"
    /\ UNCHANGED <<processes, children, pc, op, app>>

\* reader.read of the thread of child p returns 0 or an error once the child is
\* gone: the thread leaves its loop and returns
ReaderEndOf(p) ==
    /\ pc = "idle"
    /\ p \in 1..Len(children)
    /\ children[p].thread = "running"
    /\ children[p].state # "alive"
    /\ children' = [children EXCEPT ![p].thread = "ended"]
    /\ UNCHANGED <<processes, pc, op, app>>

ReaderEnd == \E p \in 1..MaxSpawns : ReaderEndOf(p)

\* a child exits on its own
ChildExit ==
    /\ pc = "idle"
    /\ \E p \in 1..Len(children), code \in ExitCodes :
        /\ children[p].state = "alive"
        /\ children' = [children EXCEPT ![p] = Exited(@, code)]
    /\ UNCHANGED <<processes, pc, op, app>>

\* the calls of the main thread other than add_process
Calls ==
    \/ Run
    \/ Return
    \/ Start
    \/ Restart
    \/ SpawnStep
    \/ Stop
    \/ ForceKill
    \/ Drop
    \/ CheckAutorestart
    \/ DrainOutput

\* a manager of up to MaxProcs processes, whose children print nothing
Next ==
    \/ AddProcess
    \/ Calls
    \/ ReaderEnd
    \/ ChildExit

Spec == Init /\ [][Next]_vars

\* a manager of one process, whose children print up to MaxChunks chunks,
\* and a user who scrolls its pane
NextIO ==
    \/ AddOnlyProcess
    \/ Calls
    \/ ScrollUp
    \/ ReaderRead
    \/ ReaderEnd
    \/ ChildExit

SpecIO == Init /\ [][NextIO]_vars

\* SpecIO with the scheduling the code relies on: the main thread goes on once it
\* has entered a call or App::run is due (it blocks on nothing but the bounded
\* waits of stop), and the OS lets every reader thread run, whose read on the
\* PTY of a child that is gone returns end-of-stream or an error
FairIO ==
    /\ WF_vars(Run)
    /\ WF_vars(Return)
    /\ WF_vars(SpawnStep)
    /\ \A p \in 1..MaxSpawns : SF_vars(ReaderEndOf(p))

SpecIOFair == SpecIO /\ FairIO

\* ------------------------------------------------ sort_by_status, resize_all
\* sort priorities with Crashed and Stopped exchanged
sort_order_stopped_first(status) ==
    CASE status.tag = "Running" -> 0
      [] status.tag = "Stopped" -> 1
      [] status.tag = "Crashed" -> 2
      [] status.tag = "NotStarted" -> 3

\* ProcessStatus::sort_order
sort_order(status) ==
    CASE status.tag = "Running" -> 0
      [] status.tag = "Crashed" -> 1
      [] status.tag = "Stopped" -> 2
      [] status.tag = "NotStarted" -> 3

\* the handles of procs whose priority is k, in the order they have in procs
with_order(procs, k) == SelectSeq(procs, LAMBDA h : sort_order(h.status) = k)

RECURSIVE Reverse(_)
Reverse(seq) == IF seq = <<>> THEN <<>> ELSE Append(Reverse(Tail(seq)), Head(seq))

\* a sort by priority that is not stable: handles of equal priority change places
sort_by_key_unstable(procs) ==
    Reverse(with_order(procs, 0)) \o Reverse(with_order(procs, 1))
        \o Reverse(with_order(procs, 2)) \o Reverse(with_order(procs, 3))

\* processes.sort_by_key(|h| h.status.sort_order()): a stable sort by priority
sort_by_key(procs) ==
    with_order(procs, 0) \o with_order(procs, 1)
        \o with_order(procs, 2) \o with_order(procs, 3)

\* iter().position(|h| h.config.name == name), as an index from 0; 0 when there
\* is none (unwrap_or(0))
position(procs, name) ==
    IF \E j \in 1..Len(procs) : procs[j].config.name = name
    THEN (CHOOSE j \in 1..Len(procs) :
              /\ procs[j].config.name = name
              /\ \A k \in 1..(j - 1) : procs[k].config.name # name) - 1
    ELSE 0

\* sort_by_status that looks the selected name up before it sorts
sort_by_status_stale(procs, selected) ==
    IF procs = <<>> THEN [procs |-> procs, index |-> 0]
    ELSE [procs |-> sort_by_key(procs),
          index |-> IF selected < Len(procs)
                    THEN position(procs, procs[selected + 1].config.name)
                    ELSE 0]

\* ProcessManager::sort_by_status(selected); indices count from 0 as in the code
sort_by_status(procs, selected) ==
    IF procs = <<>> THEN [procs |-> procs, index |-> 0]
    ELSE LET sorted == sort_by_key(procs) IN
         [procs |-> sorted,
          index |-> IF selected < Len(procs)
                    THEN position(sorted, procs[selected + 1].config.name)
                    ELSE 0]

\* the loop's sort_by_status(selected_process), for any selection
SortByStatus ==
    /\ pc = "idle"
    /\ \E selected \in 0..MaxSorted :
        LET r == sort_by_status(processes, selected) IN
        /\ processes' = r.procs
        /\ op' = [NewOp("sort_by_status", 0) EXCEPT
                    !.arg = <<selected>>, !.value = r.index, !.result = "ok"]
    /\ pc' = "ret"
    /\ UNCHANGED <<children, app>>

RECURSIVE ResizeFrom(_, _, _, _)
ResizeFrom(i, st, rows, cols) ==
    IF i > Len(st.procs) THEN st
    ELSE LET r == resize_pty(st.procs[i], st.kids, rows, cols) IN
         ResizeFrom(i + 1,
                    [procs |-> [st.procs EXCEPT ![i] = r.h], kids |-> r.kids],
                    rows, cols)

\* Action::Resize(w, h): the terminal has a new size, of which pane_size makes
\* the pane's rows and cols, any there are; ProcessManager::resize_all(rows, cols)
ResizeAll ==
    /\ pc = "idle"
    /\ \E rows \in Sizes, cols \in Sizes :
        LET r == ResizeFrom(1, [procs |-> processes, kids |-> children], rows, cols)
        IN /\ processes' = r.procs
           /\ children' = r.kids
           /\ op' = [NewOp("resize_all", 0) EXCEPT
                        !.arg = <<rows, cols>>, !.result = "ok"]
           /\ app' = [app EXCEPT !.pane = <<rows, cols>>]
    /\ pc' = "ret"

\* processes whose names may coincide, autorestart left at its default
AddAnyProcess == AddConfigured(MaxSorted, Names, {FALSE})

\* a manager of up to MaxSorted processes that start with the application and
\* exit on their own, and whose loop drains and sorts
NextSort ==
    \/ AddAnyProcess
    \/ Run
    \/ Return
    \/ DrainOutput
    \/ SortByStatus
    \/ ChildExit

SpecSort == Init /\ [][NextSort]_vars

\* a manager of one process, whose user starts and stops it and resizes the
\* terminal
NextResize ==
    \/ AddOnlyProcess
    \/ Run
    \/ Return
    \/ Start
    \/ SpawnStep
    \/ Stop
    \/ DrainOutput
    \/ ResizeAll
    \/ ChildExit

SpecResize == Init /\ [][NextResize]_vars

\* processes named differently, autorestart left at its default
AddDefaultProcess == AddConfigured(MaxProcs, {Len(processes) + 1}, {FALSE})

\* a manager of up to MaxProcs processes that start with the application, print
\* and exit on their own, and whose loop drains
NextDrain ==
    \/ AddDefaultProcess
    \/ Run
    \/ Return
    \/ DrainOutput
    \/ ReaderRead
    \/ ReaderEnd
    \/ ChildExit

SpecDrain == Init /\ [][NextDrain]_vars

\* ------------------------------------------ a TerminalScreen on its own
\* the screen of a handle that is never started, driven through the methods of
\* TerminalScreen; op keeps the last call
InitScreen ==
    /\ processes = <<NewHandle(1, 1, FALSE, MinPane, MinPane)>>
    /\ children = <<>>
    /\ pc = "screen"
    /\ op = NoOp
    /\ app = NewApp(FALSE)

\* the call `name` with arguments arg takes the screen to scr
ScreenCall(name, arg, scr) ==
    /\ processes' = [processes EXCEPT ![1].screen = scr]
    /\ op' = [NewOp(name, 1) EXCEPT !.arg = arg, !.result = "ok"]
    /\ UNCHANGED <<children, pc, app>>

\* process_bytes(data), data being the next chunk of a stream
Feed ==
    /\ pc = "screen"
    /\ Len(processes[1].screen.fed) < MaxChunks
    /\ LET c == <<0, Len(processes[1].screen.fed) + 1>> IN
       ScreenCall("process_bytes", <<c>>, process_bytes(processes[1].screen, c))

ScreenResize ==
    /\ pc = "screen"
    /\ \E rows \in Sizes, cols \in Sizes :
        ScreenCall("resize", <<rows, cols>>, resize(processes[1].screen, rows, cols))

ScreenScrollUp ==
    /\ pc = "screen"
    /\ \E n \in 0..MaxScroll :
        ScreenCall("scroll_up", <<n>>, scroll_up(processes[1].screen, n))

ScreenScrollDown ==
    /\ pc = "screen"
    /\ \E n \in 0..MaxScroll :
        ScreenCall("scroll_down", <<n>>, scroll_down(processes[1].screen, n))

\* scroll_down(n) right after scroll_up(n); op keeps the offset before the two
ScreenScrollBack ==
    /\ pc = "screen"
    /\ op.name = "scroll_up"
    /\ processes' = [processes EXCEPT ![1].screen = scroll_down(@, op.arg[1])]
    /\ op' = [op EXCEPT !.name = "scroll_up_down"]
    /\ UNCHANGED <<children, pc, app>>

ScreenScrollToBottom ==
    /\ pc = "screen"
    /\ ScreenCall("scroll_to_bottom", <<>>, scroll_to_bottom(processes[1].screen))

NextScreen ==
    \/ Feed
    \/ ScreenResize
    \/ ScreenScrollUp
    \/ ScreenScrollDown
    \/ ScreenScrollBack
    \/ ScreenScrollToBottom

SpecScreen == InitScreen /\ [][NextScreen]_vars

\* ------------------------------------------------------- App::run (app.rs)
\* an all_stopped that is content with one handle that does not run
all_stopped_some(procs) == \E i \in 1..Len(procs) : ~is_running(procs[i].status)

\* ProcessManager::all_stopped
all_stopped(procs) == \A i \in 1..Len(procs) : ~is_running(procs[i].status)

\* ProcessManager::process_count
process_count(procs) == Len(procs)

\* ProcessHandle::spawn from its first line: on a Running handle stop(true),
\* and the spawn body
spawn_any(h, kids, wait_ok, outcome, ign) ==
    LET s == stop(h, kids, TRUE, wait_ok)
        r == spawn(s.h, s.kids, outcome, ign)
    IN [h |-> r.h, kids |-> r.kids, ok |-> r.ok, hang |-> s.hang,
        stops |-> IF s.call = NoStop THEN <<>> ELSE <<s.call>>]

\* App::new has made the manager; auto_exit is as the configuration has it
InitLoop ==
    /\ processes = <<>>
    /\ children = <<>>
    /\ pc = "new"
    /\ op = NoOp
    /\ \E auto_exit \in BOOLEAN : app = NewApp(auto_exit)

\* App::run is entered: the loop is at the top of its first tick
EnterLoop ==
    /\ pc = "new"
    /\ pc' = "tick"
    /\ op' = NoOp
    /\ UNCHANGED <<processes, children, app>>

\* the tick's drain_output()
TickDrain ==
    /\ pc = "tick"
    /\ \E wait_ok \in [1..Len(processes) -> BOOLEAN] :
        LET r == DrainFrom(1, [procs |-> processes, kids |-> children,
                               any_output |-> FALSE, wait_errs |-> {},
                               exits |-> {}], wait_ok)
        IN /\ processes' = r.procs
           /\ children' = r.kids
           /\ op' = [NewOp("drain_output", 0) EXCEPT
                        !.result = IF r.any_output THEN "true" ELSE "false",
                        !.wait_errs = r.wait_errs, !.exits = r.exits]
    /\ pc' = "drained"
    /\ UNCHANGED app

\* the tick's check_autorestart()
TickAutorestart ==
    /\ pc = "drained"
    /\ LET due == {i \in 1..Len(processes) : autorestart_due(processes[i])} IN
       \E choice \in [due -> SpawnOutcomes \X BOOLEAN] :
            LET r == AutoFrom(1, [procs |-> processes, kids |-> children,
                                  attempted |-> {}, failed |-> {}], choice)
            IN /\ Len(r.kids) <= MaxSpawns
               /\ processes' = r.procs
               /\ children' = r.kids
               /\ op' = [NewOp("check_autorestart", 0) EXCEPT
                            !.attempted = r.attempted, !.failed = r.failed,
                            !.result = "ok"]
    /\ pc' = "restarted"
    /\ UNCHANGED app

\* the tick's selected_process = sort_by_status(selected_process); after it the
\* frame is drawn and the loop polls for an event
TickSort ==
    /\ pc = "restarted"
    /\ LET r == sort_by_status(processes, app.selected_process) IN
        /\ processes' = r.procs
        /\ op' = [NewOp("sort_by_status", 0) EXCEPT
                    !.arg = <<app.selected_process>>, !.value = r.index,
                    !.result = "ok"]
        /\ app' = [app EXCEPT !.selected_process = r.index]
    /\ pc' = "poll"
    /\ UNCHANGED children

\* event::poll times out, or the event maps to an action that leaves the manager
\* and should_quit alone
PollTimeout ==
    /\ pc = "poll"
    /\ pc' = "dispatched"
    /\ op' = NoOp
    /\ UNCHANGED <<processes, children, app>>

\* dispatch(Action::Quit)
DispatchQuit ==
    /\ pc = "poll"
    /\ pc' = "dispatched"
    /\ op' = [NewOp("quit", 0) EXCEPT !.result = "ok"]
    /\ app' = [app EXCEPT !.should_quit = TRUE, !.quit = TRUE]
    /\ UNCHANGED <<processes, children>>

\* dispatch(Action::SelectNext) on the process tab
DispatchSelectNext ==
    /\ pc = "poll"
    /\ pc' = "dispatched"
    /\ op' = [NewOp("select_next", 0) EXCEPT !.result = "ok"]
    /\ app' = IF process_count(processes) > 0
              THEN [app EXCEPT !.selected_process =
                                  (@ + 1) % process_count(processes)]
              ELSE app
    /\ UNCHANGED <<processes, children>>

\* dispatch(Action::StartProcess): process_manager.start(selected_process), its
\* result dropped
DispatchStart ==
    /\ pc = "poll"
    /\ LET i == app.selected_process + 1 IN
       IF i \in 1..Len(processes)
       THEN \E wait_ok \in BOOLEAN, outcome \in SpawnOutcomes, ign \in BOOLEAN :
                LET r == spawn_any(processes[i], children, wait_ok, outcome, ign) IN
                /\ ~r.hang
                /\ Len(r.kids) <= MaxSpawns
                /\ processes' = [processes EXCEPT ![i] = r.h]
                /\ children' = r.kids
                /\ op' = [NewOp("start", i) EXCEPT
                            !.attempted = {processes[i].hid},
                            !.failed = IF r.ok THEN {} ELSE {processes[i].hid},
                            !.stops = r.stops,
                            !.result = IF r.ok THEN "ok" ELSE "err"]
       ELSE /\ op' = [NewOp("start", 0) EXCEPT !.result = "ok"]
            /\ UNCHANGED <<processes, children>>
    /\ pc' = "dispatched"
    /\ UNCHANGED app

\* dispatch(Action::StopProcess) on the process tab:
\* process_manager.stop(selected_process)
DispatchStop ==
    /\ pc = "poll"
    /\ LET i == app.selected_process + 1 IN
       IF i \in 1..Len(processes)
       THEN \E wait_ok \in BOOLEAN :
                LET r == stop(processes[i], children, TRUE, wait_ok) IN
                /\ ~r.hang
                /\ processes' = [processes EXCEPT ![i] = r.h]
                /\ children' = r.kids
                /\ op' = [NewOp("stop", i) EXCEPT
                            !.stops = IF r.call = NoStop THEN <<>> ELSE <<r.call>>,
                            !.result = "ok"]
       ELSE /\ op' = [NewOp("stop", 0) EXCEPT !.result = "ok"]
            /\ UNCHANGED <<processes, children>>
    /\ pc' = "dispatched"
    /\ UNCHANGED app

\* a child exits on its own while the loop polls, or between the dispatch and
\* the end of the tick
TickChildExit ==
    /\ pc \in {"poll", "dispatched"}
    /\ \E p \in 1..Len(children), code \in ExitCodes :
        /\ children[p].state = "alive"
        /\ children' = [children EXCEPT ![p] = Exited(@, code)]
    /\ UNCHANGED <<processes, pc, op, app>>

\* the auto-exit check at the end of the tick
TickAutoExit ==
    /\ pc = "dispatched"
    /\ pc' = "checked"
    /\ app' = IF /\ app.auto_exit
                 /\ process_count(processes) > 0
                 /\ all_stopped(processes)
              THEN [app EXCEPT !.should_quit = TRUE]
              ELSE app
    /\ UNCHANGED <<processes, children, op>>

\* `if self.should_quit { stop_all(); break; }`, or the next tick
TickQuit ==
    /\ pc = "checked"
    /\ IF app.should_quit
       THEN LET run == {i \in 1..Len(processes) : is_running(processes[i].status)} IN
            \E wait_ok \in [run -> BOOLEAN] :
                LET r == StopAllFrom(1, [procs |-> processes, kids |-> children,
                                         stops |-> <<>>, hang |-> FALSE], wait_ok)
                IN /\ ~r.hang
                   /\ processes' = r.procs
                   /\ children' = r.kids
                   /\ op' = [NewOp("stop_all", 0) EXCEPT
                                !.stops = r.stops, !.result = "ok"]
                   /\ app' = [app EXCEPT !.stop_alls = @ + 1]
                   /\ pc' = "done"
       ELSE /\ pc' = "tick"
            /\ op' = NoOp
            /\ UNCHANGED <<processes, children, app>>

\* run has returned and main drops the App: Drop for ProcessManager calls
\* stop_all()
AppDrop ==
    /\ pc = "done"
    /\ LET run == {i \in 1..Len(processes) : is_running(processes[i].status)} IN
       \E wait_ok \in [run -> BOOLEAN] :
        LET r == StopAllFrom(1, [procs |-> processes, kids |-> children,
                                 stops |-> <<>>, hang |-> FALSE], wait_ok)
        IN /\ ~r.hang
           /\ processes' = r.procs
           /\ children' = r.kids
           /\ op' = [NewOp("drop", 0) EXCEPT !.stops = r.stops, !.result = "ok"]
    /\ pc' = "exited"
    /\ UNCHANGED app

\* the application: its processes are added, and the loop runs tick after tick
\* until it quits
NextLoop ==
    \/ AddProcess
    \/ EnterLoop
    \/ TickDrain
    \/ TickAutorestart
    \/ TickSort
    \/ PollTimeout
    \/ DispatchQuit
    \/ DispatchSelectNext
    \/ DispatchStart
    \/ DispatchStop
    \/ TickChildExit
    \/ TickAutoExit
    \/ TickQuit
    \/ AppDrop

SpecLoop == InitLoop /\ [][NextLoop]_vars

\* ------------------------------------ the manager's calls by index
\* a get_mut that wraps an index beyond the end around
get_mut_wraps(procs, index) ==
    IF Len(procs) = 0 THEN 0 ELSE (index % Len(procs)) + 1

\* processes.get_mut(index): the place of the handle at `index` (indices count
\* from 0, places in the sequence from 1), or 0 for None
get_mut(procs, index) == IF index < Len(procs) THEN index + 1 ELSE 0

\* ProcessManager::start(index) and restart(index), called with pc = at and
\* leaving pc = to: handle.spawn() or handle.restart() on the handle get_mut
\* finds, and Ok(()) if it finds none
ManagerSpawn(name, index, at, to) ==
    /\ pc = at
    /\ LET i == get_mut(processes, index) IN
       IF i # 0
       THEN \E wait_ok \in BOOLEAN, outcome \in SpawnOutcomes, ign \in BOOLEAN :
                LET r == spawn_any(processes[i], children, wait_ok, outcome, ign) IN
                /\ ~r.hang
                /\ Len(r.kids) <= MaxSpawns
                /\ processes' = [processes EXCEPT ![i] = r.h]
                /\ children' = r.kids
                /\ op' = [NewOp(name, i) EXCEPT
                            !.attempted = {processes[i].hid},
                            !.failed = IF r.ok THEN {} ELSE {processes[i].hid},
                            !.stops = r.stops,
                            !.arg = <<index>>,
                            !.result = IF r.ok THEN "ok" ELSE "err"]
       ELSE /\ op' = [NewOp(name, 0) EXCEPT !.arg = <<index>>, !.result = "ok"]
            /\ UNCHANGED <<processes, children>>
    /\ pc' = to
    /\ UNCHANGED app

\* ProcessManager::stop(index) and force_kill(index): handle.stop(graceful) on
\* the handle get_mut finds, and Ok(()) if it finds none
ManagerStop(name, graceful, index, at, to) ==
    /\ pc = at
    /\ LET i == get_mut(processes, index) IN
       IF i # 0
       THEN \E wait_ok \in BOOLEAN :
                LET r == stop(processes[i], children, graceful, wait_ok) IN
                /\ ~r.hang
                /\ processes' = [processes EXCEPT ![i] = r.h]
                /\ children' = r.kids
                /\ op' = [NewOp(name, i) EXCEPT
                            !.stops = IF r.call = NoStop THEN <<>> ELSE <<r.call>>,
                            !.arg = <<index>>,
                            !.result = "ok"]
       ELSE /\ op' = [NewOp(name, 0) EXCEPT !.arg = <<index>>, !.result = "ok"]
            /\ UNCHANGED <<processes, children>>
    /\ pc' = to
    /\ UNCHANGED app

\* the indices a caller may pass: those of the handles, and some beyond
Indices == 0..(MaxProcs + 1)

StartAt == \E index \in Indices : ManagerSpawn("start", index, "idle", "ret")

RestartAt == \E index \in Indices : ManagerSpawn("restart", index, "idle", "ret")

StopAt == \E index \in Indices : ManagerStop("stop", TRUE, index, "idle", "ret")

ForceKillAt ==
    \E index \in Indices : ManagerStop("force_kill", FALSE, index, "idle", "ret")

\* a manager whose four calls by index are made with any index
NextIndex ==
    \/ AddDefaultProcess
    \/ Run
    \/ Return
    \/ StartAt
    \/ RestartAt
    \/ StopAt
    \/ ForceKillAt
    \/ ChildExit

SpecIndex == Init /\ [][NextIndex]_vars

\* ------------------------------------ App::dispatch on the selection
\* dispatch(Action::SelectPrev) on the process tab
DispatchSelectPrev ==
    /\ pc = "poll"
    /\ pc' = "dispatched"
    /\ op' = [NewOp("select_prev", 0) EXCEPT !.result = "ok"]
    /\ app' = IF process_count(processes) > 0
              THEN [app EXCEPT !.selected_process =
                                  IF @ = 0 THEN process_count(processes) - 1
                                  ELSE @ - 1]
              ELSE app
    /\ UNCHANGED <<processes, children>>

\* a SelectIndex that takes the index of the click as it comes
DispatchSelectIndexUnchecked ==
    /\ pc = "poll"
    /\ pc' = "dispatched"
    /\ \E idx \in Indices :
        /\ op' = [NewOp("select_index", 0) EXCEPT !.arg = <<idx>>, !.result = "ok"]
        /\ app' = [app EXCEPT !.selected_process = idx]
    /\ UNCHANGED <<processes, children>>

\* dispatch(Action::SelectIndex(idx)): a click on row idx of the list
DispatchSelectIndex ==
    /\ pc = "poll"
    /\ pc' = "dispatched"
    /\ \E idx \in Indices :
        /\ op' = [NewOp("select_index", 0) EXCEPT !.arg = <<idx>>, !.result = "ok"]
        /\ app' = IF idx < process_count(processes)
                  THEN [app EXCEPT !.selected_process = idx]
                  ELSE app
    /\ UNCHANGED <<processes, children>>

\* dispatch(Action::ForceKill) on the process tab
DispatchForceKill ==
    ManagerStop("force_kill", FALSE, app.selected_process, "poll", "dispatched")

\* dispatch(Action::RestartProcess)
DispatchRestart ==
    ManagerSpawn("restart", app.selected_process, "poll", "dispatched")

\* the application with a user who moves the selection and starts, stops, kills
\* and restarts what is selected
NextSelect ==
    \/ AddProcess
    \/ EnterLoop
    \/ TickDrain
    \/ TickAutorestart
    \/ TickSort
    \/ PollTimeout
    \/ DispatchQuit
    \/ DispatchSelectNext
    \/ DispatchSelectPrev
    \/ DispatchSelectIndex
    \/ DispatchStart
    \/ DispatchStop
    \/ DispatchForceKill
    \/ DispatchRestart
    \/ TickChildExit
    \/ TickAutoExit
    \/ TickQuit
    \/ AppDrop

SpecSelect == InitLoop /\ [][NextSelect]_vars

\* ------------------------------------------------- keyboard input
\* the bytes of the keys a user presses
Bytes == {"a", "b"}

\* what one SendInput action carries: a key, or a paste of up to MaxInput bytes
InputData == UNION {[1..n -> Bytes] : n \in 1..MaxInput}

\* dispatch(Action::SendInput(data)) with the handle at index i selected:
\* handle.write_input(&data), its result dropped by the caller
WriteInput ==
    /\ pc = "idle"
    /\ \E i \in 1..Len(processes), data \in InputData, outcome \in WriteOutcomes :
       \E n \in 0..(Len(data) - 1) :
        LET h == processes[i]
            r == write_input(h, children, data, outcome, n)
        IN /\ h.master_pty # 0 =>
                 Len(children[h.master_pty].input) + Len(data) <= MaxInput
           /\ processes' = [processes EXCEPT ![i] = r.h]
           /\ children' = r.kids
           /\ op' = [NewOp("write_input", i) EXCEPT
                        !.arg = <<data>>,
                        !.result = IF r.ok THEN "ok" ELSE "err"]
    /\ pc' = "ret"
    /\ UNCHANGED app

\* a manager of one process and a user who types into its pane
NextInput ==
    \/ AddOnlyProcess
    \/ Run
    \/ Return
    \/ Start
    \/ SpawnStep
    \/ Stop
    \/ DrainOutput
    \/ WriteInput
    \/ ChildExit

SpecInput == Init /\ [][NextInput]_vars

\* ------------------------------------------- extract_ports (port/parser.rs)
\* A command string is the sequence of its characters.
DigitChars == <<"0", "1", "2", "3", "4", "5", "6", "7", "8", "9">>
Digits == {DigitChars[k] : k \in 1..Len(DigitChars)}
Spaces == {" "}

\* the value of the digit c
DigitValue(c) == (CHOOSE k \in 1..Len(DigitChars) : DigitChars[k] = c) - 1

\* the words the three regexes begin with; the first regex wants whitespace
\* (\s+) between the word and the digits
PortFlagLong == <<"-", "-", "p", "o", "r", "t">>
PortFlagUpper == <<"-", "-", "P", "O", "R", "T">>
PortFlagShort == <<"-", "p">>
PortEnv == <<"P", "O", "R", "T", "=">>
Localhost == <<"l", "o", "c", "a", "l", "h", "o", "s", "t", ":">>

patterns ==
    << [heads |-> {PortFlagLong, PortFlagUpper, PortFlagShort}, space |-> TRUE],
       [heads |-> {PortEnv}, space |-> FALSE],
       [heads |-> {Localhost}, space |-> FALSE] >>

\* \d{2,5}
MinDigits == 2
MaxDigits == 5
\* the largest u16
U16Max == 65535
\* the smallest number taken for a port
MinPort == 80

\* the word w stands in cmd at index i
StartsWith(cmd, i, w) ==
    /\ i >= 1
    /\ i + Len(w) - 1 <= Len(cmd)
    /\ \A k \in 1..Len(w) : cmd[i + k - 1] = w[k]

\* how many characters of cmd from index i on are in set
RECURSIVE RunLen(_, _, _)
RunLen(cmd, i, set) ==
    IF i <= Len(cmd) /\ cmd[i] \in set THEN 1 + RunLen(cmd, i + 1, set) ELSE 0

\* the match of regex pat that begins at index i of cmd, if there is one: its
\* capture group and the index after its end.  \s+ and \d{2,5} are greedy.
match_at(pat, cmd, i) ==
    LET heads == {w \in pat.heads : StartsWith(cmd, i, w)} IN
    IF heads = {} THEN [ok |-> FALSE, cap |-> <<>>, end |-> i]
    ELSE LET w == CHOOSE x \in heads : TRUE
             j == i + Len(w)
             sp == IF pat.space THEN RunLen(cmd, j, Spaces) ELSE 0
             d == j + sp
             run == RunLen(cmd, d, Digits)
             n == IF run > MaxDigits THEN MaxDigits ELSE run
         IN IF (pat.space => sp >= 1) /\ run >= MinDigits
            THEN [ok |-> TRUE, cap |-> SubSeq(cmd, d, d + n - 1), end |-> d + n]
            ELSE [ok |-> FALSE, cap |-> <<>>, end |-> i]

\* re.captures_iter(cmd): the matches from left to right, none overlapping
\* another, each given by its capture group
RECURSIVE captures_iter(_, _, _)
captures_iter(pat, cmd, i) ==
    IF i > Len(cmd) THEN <<>>
    ELSE LET m == match_at(pat, cmd, i) IN
         IF m.ok THEN <<m.cap>> \o captures_iter(pat, cmd, m.end)
         ELSE captures_iter(pat, cmd, i + 1)

\* the number a sequence of digits writes
RECURSIVE Value(_)
Value(ds) ==
    IF ds = <<>> THEN 0
    ELSE 10 * Value(SubSeq(ds, 1, Len(ds) - 1)) + DigitValue(ds[Len(ds)])

\* a parse that wraps around instead of failing
parse_u16_wrapping(ds) == <<Value(ds) % (U16Max + 1)>>

\* m.as_str().parse::<u16>(): <<v>> for Ok(v), <<>> for Err
parse_u16(ds) == IF Value(ds) <= U16Max THEN <<Value(ds)>> ELSE <<>>

\* the ports pushed for the captures caps, in order
RECURSIVE push_ports(_)
push_ports(caps) ==
    IF caps = <<>> THEN <<>>
    ELSE LET p == parse_u16(Head(caps)) IN
         (IF p # <<>> /\ p[1] >= MinPort THEN p ELSE <<>>) \o push_ports(Tail(caps))

\* ports.sort()
RECURSIVE sort(_)
sort(seq) ==
    IF seq = <<>> THEN <<>>
    ELSE LET m == CHOOSE k \in 1..Len(seq) : \A j \in 1..Len(seq) : seq[k] <= seq[j]
         IN <<seq[m]>> \o sort(SubSeq(seq, 1, m - 1) \o SubSeq(seq, m + 1, Len(seq)))

\* ports.dedup(): of equal neighbours the first stays
RECURSIVE dedup(_)
dedup(seq) ==
    IF Len(seq) < 2 THEN seq
    ELSE IF seq[1] = seq[2] THEN dedup(Tail(seq))
    ELSE <<seq[1]>> \o dedup(Tail(seq))

\* extract_ports(config); config.port is <<>> for None and <<p>> for Some(p)
extract_ports(config) ==
    LET cmd == config.command
        found == IF cmd = <<>> THEN <<>>
                 ELSE push_ports(captures_iter(patterns[1], cmd, 1))
                      \o push_ports(captures_iter(patterns[2], cmd, 1))
                      \o push_ports(captures_iter(patterns[3], cmd, 1))
    IN dedup(sort(config.port \o found))

\* the pieces commands are made of here: the flags, a space, a letter, and
\* numbers of one to five digits (longer ones arise from two in a row)
Words ==
    {PortFlagLong, PortFlagUpper, PortFlagShort, PortEnv, Localhost,
     <<" ">>, <<"x">>,
     <<"8">>, <<"7", "9">>, <<"8", "0", "8", "0">>, <<"3", "0", "0", "0">>,
     <<"7", "0", "0", "0", "0">>}

\* the port fields configurations have here
PortFields == {<<>>, <<22>>, <<3000>>, <<8080>>}

RECURSIVE Flatten(_)
Flatten(ws) == IF ws = <<>> THEN <<>> ELSE Head(ws) \o Flatten(Tail(ws))

\* a ProcessConfig has been loaded: a port field and a command of up to
\* MaxWords pieces
InitPorts ==
    /\ processes = <<>>
    /\ children = <<>>
    /\ pc = "config"
    /\ app = NewApp(FALSE)
    /\ \E port \in PortFields, n \in 0..MaxWords :
        \E ws \in [1..n -> Words] :
            op = [NoOp EXCEPT !.name = "config", !.arg = <<port, Flatten(ws)>>]

\* extract_ports(config) is called on it
ExtractPorts ==
    /\ pc = "config"
    /\ pc' = "ports"
    /\ op' = [op EXCEPT !.name = "extract_ports",
                        !.ports = extract_ports([port |-> op.arg[1],
                                                 command |-> op.arg[2]])]
    /\ UNCHANGED <<processes, children, app>>

NextPorts == ExtractPorts

SpecPorts == InitPorts /\ [][NextPorts]_vars

\* ------------------------------------------------------------ properties
Handles == {processes[i] : i \in 1..Len(processes)}

\* the handle with identity hid among the handles of procs
HandleById(procs, hid) ==
    LET i == CHOOSE j \in 1..Len(procs) : procs[j].hid = hid IN procs[i]

HasHandle(procs, hid) == \E j \in 1..Len(procs) : procs[j].hid = hid

\* C1: in every reachable state the four OS-resource fields of a handle (child,
\* PTY master, channel receiver, reader-thread handle) are all present or all
\* absent.
C1_ResourcesAllOrNone ==
    \A h \in Handles :
        /\ (h.child # 0) = (h.master_pty # 0)
        /\ (h.child # 0) = (h.output_rx # 0)
        /\ (h.child # 0) = (h.reader_thread # 0)

\* the chunks of child p among those fed to a screen, in the order they were fed
FedOf(screen, p) == SelectSeq(screen.fed, LAMBDA x : x[1] = p)

\* C2: the chunks of one child reach the terminal buffer in the order the reader
\* thread read them (chunk k of a child is the k-th its reader read): no chunk is
\* fed after one that was read later, within a drain_output call or across calls.
C2_FedInReadOrder ==
    \A h \in Handles : \A p \in 1..Len(children) :
        LET s == FedOf(h.screen, p) IN
        \A j \in 1..Len(s), k \in 1..Len(s) : j < k => s[j][2] < s[k][2]

\* two chunks of one child have been fed, the reader's sends and the drains
\* interleaved in any way
C2_Witness ==
    \E h \in Handles : \E p \in 1..Len(children) : Len(FedOf(h.screen, p)) >= 2

\* C3: no output is lost: once nothing of a child's channel is left to drain (its
\* receiver is gone), every chunk the reader thread read from that child has been
\* fed to the buffer of the handle that owns it, and no chunk is ever fed twice.
C3_NoOutputLost ==
    \A p \in 1..Len(children) :
        LET kid == children[p]
            s == IF HasHandle(processes, kid.owner)
                 THEN FedOf(HandleById(processes, kid.owner).screen, p)
                 ELSE <<>>
        IN /\ \A j \in 1..Len(s), k \in 1..Len(s) : s[j] = s[k] => j = k
           /\ (kid.thread # "none" /\ ~kid.rx) =>
                 \A c \in 1..kid.nread : \E j \in 1..Len(s) : s[j] = <<p, c>>

\* C4: once the ProcessManager has been dropped, no handle is Running and no child
\* that was ever spawned is still alive.
C4_NoOrphanAfterDrop ==
    pc = "exited" =>
        /\ \A h \in Handles : ~is_running(h.status)
        /\ \A p \in 1..Len(children) : children[p].state # "alive"

\* the status changes the lifecycle allows
Allowed(a, b) ==
    \/ a = b
    \/ a.tag = "NotStarted" /\ b.tag = "Running"
    \/ a.tag = "Running" /\ b.tag \in {"Stopped", "Crashed"}
    \/ a.tag \in {"Stopped", "Crashed"} /\ b.tag = "Running"

\* C5: every step changes a handle's status only along NotStarted -> Running,
\* Running -> Stopped|Crashed, Stopped|Crashed -> Running; no step takes a handle
\* back to NotStarted.
C5_StatusTransitions ==
    [][\A h \in Handles :
          HasHandle(processes', h.hid) =>
              Allowed(h.status, HandleById(processes', h.hid).status)]_vars

\* a handle runs its second child: it went NotStarted -> Running, then to
\* Stopped or Crashed, and back to Running
C5_Witness ==
    \E h \in Handles :
        /\ is_running(h.status)
        /\ \E p \in 1..Len(children) :
              /\ p < h.status.pid
              /\ children[p].owner = h.hid
              /\ children[p].thread # "none"

\* position of the first e in log (0: none)
First(log, e) ==
    IF \E j \in 1..Len(log) : log[j] = e
    THEN CHOOSE j \in 1..Len(log) : log[j] = e /\ \A k \in 1..(j - 1) : log[k] # e
    ELSE 0

\* C6: a graceful stop of a Running handle whose child ignores the graceful
\* signal sets the status (Stopped or Crashed) only after the grace interval has
\* elapsed and the forced signal has been sent to the process group.
C6_StatusAfterGraceAndKill ==
    \A j \in 1..Len(op.stops) :
        LET s == op.stops[j] IN
        (s.graceful /\ s.ignored) =>
            /\ First(s.log, "terminate") > 0
            /\ First(s.log, "terminate") < First(s.log, "sleep")
            /\ First(s.log, "sleep") < First(s.log, "force_kill")
            /\ First(s.log, "force_kill") < First(s.log, "status")
            /\ children[s.pid].state = "reaped"

\* a graceful stop has returned whose child ignored the graceful signal
C6_Witness ==
    /\ pc = "ret"
    /\ op.name = "stop"
    /\ processes[op.h].status.tag \in {"Stopped", "Crashed"}
    /\ \E j \in 1..Len(op.stops) : op.stops[j].graceful /\ op.stops[j].ignored

\* the handles on which the call just made spawned a child
Spawned == IF pc \in {"ret", "new"} THEN op.attempted \ op.failed ELSE {}

IsCall(name) == pc = "idle" /\ pc' = "ret" /\ op'.name = name

\* C8: check_autorestart does not spawn a handle whose status is NotStarted, with
\* autorestart set or not; across drain_output and check_autorestart such a
\* handle stays NotStarted.
C8_NeverStartedStays ==
    [][(IsCall("check_autorestart") \/ IsCall("drain_output")) =>
          \A h \in Handles :
              h.status.tag = "NotStarted" =>
                  /\ h.hid \notin op'.attempted
                  /\ HandleById(processes', h.hid) = h]_vars

\* check_autorestart has returned with a never-started autorestart handle present
C8_Witness ==
    /\ pc = "ret"
    /\ op.name = "check_autorestart"
    /\ \E h \in Handles : h.config.autorestart /\ h.status.tag = "NotStarted"

\* C9: check_autorestart calls spawn on every autorestart handle that is Stopped
\* or Crashed; where spawn succeeds the handle is Running with a child spawned
\* by this call; handles without autorestart and Running handles are unchanged.
C9_AutorestartSpawns ==
    [][IsCall("check_autorestart") =>
          \A h \in Handles :
              LET h2 == HandleById(processes', h.hid) IN
              /\ (h.config.autorestart /\ h.status.tag \in {"Stopped", "Crashed"})
                    => h.hid \in op'.attempted
              /\ (h.hid \in op'.attempted \ op'.failed) =>
                    /\ h2.status.tag = "Running"
                    /\ h2.status.pid \in (Len(children) + 1)..Len(children')
                    /\ h2.child = h2.status.pid
                    /\ children'[h2.child].owner = h.hid
                    /\ children'[h2.child].state = "alive"
              /\ (~h.config.autorestart \/ is_running(h.status)) => h2 = h]_vars

\* check_autorestart has respawned a handle whose earlier child had been reaped
C9_Witness ==
    /\ pc = "ret"
    /\ op.name = "check_autorestart"
    /\ \E hid \in op.attempted \ op.failed :
          \E p \in 1..Len(children) :
              /\ children[p].owner = hid
              /\ children[p].state = "reaped"

\* a call of spawn, start or restart on one handle has returned a failure
SpawnFailed ==
    \/ pc = "ret" /\ op.name \in {"start", "restart"} /\ op.result = "err"
    \/ pc = "new" /\ op.name = "add" /\ op.failed # {}

\* C10, whatever the status before the call: whenever spawn, start or restart
\* returns a failure, the handle's status is the status it had before the call.
C10_FailureKeepsStatus ==
    SpawnFailed => processes[op.h].status = op.pre

\* C10, by the status before the call: whenever spawn, start or restart returns
\* a failure, the status is the one before the call if the handle was not Running
\* before it, and is Stopped or Crashed, as left by the stop the call began with,
\* if it was.
C10_FailureKeepsStoppedStatus ==
    SpawnFailed =>
        IF is_running(op.pre)
        THEN processes[op.h].status.tag \in {"Stopped", "Crashed"}
        ELSE processes[op.h].status = op.pre

\* a restart of a Running handle has failed in its spawn
C10_Witness ==
    /\ SpawnFailed
    /\ op.name = "restart"
    /\ is_running(op.pre)

\* the last spawn on handle hid that got as far as creating a child failed after
\* that (the child has no reader thread), and no spawn on it has succeeded since
LastSpawnFailed(hid) ==
    \E p \in 1..Len(children) :
        /\ children[p].owner = hid
        /\ children[p].thread = "none"
        /\ \A q \in (p + 1)..Len(children) : children[q].owner # hid

\* C11: a failed spawn is not retried automatically: check_autorestart makes no
\* spawn attempt on a handle whose last spawn failed.
C11_NoAutoRetry ==
    [][IsCall("check_autorestart") =>
          \A h \in Handles : LastSpawnFailed(h.hid) => h.hid \notin op'.attempted]_vars

\* the handle hid stands before the handle hid2 in procs
Before(procs, hid, hid2) ==
    \E i \in 1..Len(procs), j \in 1..Len(procs) :
        i < j /\ procs[i].hid = hid /\ procs[j].hid = hid2

\* procs is in nondecreasing order of priority, Running(0) < Crashed(1) <
\* Stopped(2) < NotStarted(3)
InPriorityOrder(procs) ==
    \A i \in 1..Len(procs), j \in 1..Len(procs) :
        i < j =>
            LET a == procs[i].status.tag
                b == procs[j].status.tag
            IN \/ a = "Running"
               \/ a = "Crashed" /\ b # "Running"
               \/ a = "Stopped" /\ b \in {"Stopped", "NotStarted"}
               \/ a = "NotStarted" /\ b = "NotStarted"

\* each kind of status has a priority of its own
SamePriority(h, h2) == h.status.tag = h2.status.tag

\* C12: sort_by_status leaves a permutation of the handles it found, in
\* nondecreasing order of priority Running < Crashed < Stopped < NotStarted,
\* two handles of equal priority keeping their order.
C12_SortedStablePermutation ==
    [][IsCall("sort_by_status") =>
          /\ Len(processes') = Len(processes)
          /\ \A h \in Handles :
                HasHandle(processes', h.hid) /\ HandleById(processes', h.hid) = h
          /\ InPriorityOrder(processes')
          /\ \A h \in Handles, h2 \in Handles :
                (SamePriority(h, h2) /\ Before(processes, h.hid, h2.hid))
                    => Before(processes', h.hid, h2.hid)]_vars

\* the order of the handles by hid
Order(procs) == [j \in 1..Len(procs) |-> procs[j].hid]

\* sort_by_status has moved a handle, among handles two of which have the same
\* priority
C12_Witness ==
    /\ pc = "ret"
    /\ op.name = "sort_by_status"
    /\ op.order # Order(processes)
    /\ \E h \in Handles, h2 \in Handles : h.hid # h2.hid /\ SamePriority(h, h2)

\* C13: sort_by_status is idempotent: called on handles that are in priority
\* order already, it leaves their order as it is.
C13_SortIdempotent ==
    [][(IsCall("sort_by_status") /\ InPriorityOrder(processes)) =>
          processes' = processes]_vars

\* sort_by_status has returned from a call on two or more handles in priority
\* order already, two of them of the same priority
C13_Witness ==
    /\ pc = "ret"
    /\ op.name = "sort_by_status"
    /\ op.order = Order(processes)
    /\ InPriorityOrder(processes)
    /\ \E h \in Handles, h2 \in Handles : h.hid # h2.hid /\ SamePriority(h, h2)

\* the handle that was at index `selected` (from 0) when the call was made
WasSelected == HandleById(processes, op.order[op.arg[1] + 1])

\* C14: sort_by_status(selected) returns an index at which a handle stands that
\* has the name of the handle selected before, and is that handle when no other
\* has its name; it returns 0 when there are no handles or selected is out of
\* range.
C14_SelectionFollows ==
    (pc = "ret" /\ op.name = "sort_by_status") =>
        IF op.arg[1] < Len(op.order)
        THEN /\ op.value < Len(processes)
             /\ processes[op.value + 1].config.name = WasSelected.config.name
             /\ (\A h \in Handles :
                    h.config.name = WasSelected.config.name => h = WasSelected)
                   => processes[op.value + 1] = WasSelected
        ELSE op.value = 0

\* the selected handle has been moved by the sort and the index returned is not
\* the one passed
C14_Witness ==
    /\ pc = "ret"
    /\ op.name = "sort_by_status"
    /\ op.arg[1] < Len(op.order)
    /\ op.value # op.arg[1]
    /\ processes[op.value + 1] = WasSelected

\* C15: resize_pty, and so resize_all, never takes the rows or cols stored in a
\* handle's buffer below what they were, whatever size is requested; nor does
\* any other step of the manager.
C15_ResizePtyNeverShrinks ==
    [][\A h \in Handles :
          HasHandle(processes', h.hid) =>
              /\ HandleById(processes', h.hid).screen.rows >= h.screen.rows
              /\ HandleById(processes', h.hid).screen.cols >= h.screen.cols]_vars

\* resize_all has returned from a request smaller, in rows or in cols, than the
\* size the buffer of a handle has
C15_Witness ==
    /\ pc = "ret"
    /\ op.name = "resize_all"
    /\ \E h \in Handles : op.arg[1] < h.screen.rows \/ op.arg[2] < h.screen.cols

\* the screen driven on its own is the screen of its one handle
TheScreen == processes[1].screen

\* C16, of the buffer's own resize: after resize(rows, cols) neither dimension of
\* the buffer is smaller than it was before the call.
C16_ResizeNeverShrinks ==
    (pc = "screen" /\ op.name = "resize") =>
        /\ TheScreen.rows >= op.pre_size[1]
        /\ TheScreen.cols >= op.pre_size[2]

\* C16, of resize and of its caller: the buffer's own resize(rows, cols) sets
\* both dimensions to the ones requested, larger or smaller; the size resize_pty
\* passes to it is max(current, requested), which is never smaller than the
\* buffer is.
C16_ResizeSetsRequested ==
    /\ (pc = "screen" /\ op.name = "resize") =>
          TheScreen.rows = op.arg[1] /\ TheScreen.cols = op.arg[2]
    /\ pc = "screen" =>
          \A rows \in Sizes, cols \in Sizes :
              LET r == resize_pty(processes[1], children, rows, cols).h.screen IN
              /\ r.rows >= TheScreen.rows /\ r.rows >= rows
              /\ r.cols >= TheScreen.cols /\ r.cols >= cols
              /\ r.rows \in {TheScreen.rows, rows}
              /\ r.cols \in {TheScreen.cols, cols}

\* resize has returned from a request smaller in rows and larger in cols than
\* the buffer was
C16_Witness ==
    /\ pc = "screen"
    /\ op.name = "resize"
    /\ op.arg[1] < op.pre_size[1]
    /\ op.arg[2] > op.pre_size[2]

\* C17: after any sequence of scroll_up, scroll_down, scroll_to_bottom and
\* process_bytes calls the scroll offset of the buffer is within
\* [0, scrollback length].
C17_OffsetInScrollback ==
    \A h \in Handles :
        /\ h.screen.scroll_offset >= 0
        /\ h.screen.scroll_offset <= h.screen.sb_len

\* scroll_up(n) has returned from a request that went past the scrollback there
\* is, some of it being there
C17_Witness ==
    /\ pc = "screen"
    /\ op.name = "scroll_up"
    /\ TheScreen.sb_len > 0
    /\ op.pre_scroll + op.arg[1] > TheScreen.sb_len

\* scroll_down(n) has returned right after scroll_up(n), n being at most the
\* scrollback length
ScrolledUpAndDown ==
    /\ pc = "screen"
    /\ op.name = "scroll_up_down"
    /\ op.arg[1] <= TheScreen.sb_len

\* C18, for every starting offset: scroll_up(n) followed by scroll_down(n), n at
\* most the scrollback length, brings the scroll offset back to what it was.
C18_ScrollRoundTrip ==
    ScrolledUpAndDown => TheScreen.scroll_offset = op.pre_scroll

\* C18, for the starting offsets that leave room: scroll_up(n) followed by
\* scroll_down(n) brings the scroll offset back to what it was when the offset
\* plus n is at most the scrollback length.
C18_ScrollRoundTripInRange ==
    (ScrolledUpAndDown /\ op.pre_scroll + op.arg[1] <= TheScreen.sb_len) =>
        TheScreen.scroll_offset = op.pre_scroll

\* a round trip of n > 0 from an offset above 0 that left room for it
C18_Witness ==
    /\ ScrolledUpAndDown
    /\ op.arg[1] > 0
    /\ op.pre_scroll > 0
    /\ op.pre_scroll + op.arg[1] <= TheScreen.sb_len

\* a stop or stop_all has just returned and nothing has been done since
StopReturned ==
    \/ pc = "ret" /\ op.name \in {"stop", "force_kill"}
    \/ pc = "spawn"
    \/ pc = "exited"

\* C19: when stop(graceful) returns on a handle that was Running, the status is
\* Stopped{exit_code}, with the exit code wait returned, if waiting for the child
\* succeeded and Crashed if it failed, never Running, and the child handle, PTY
\* master, channel receiver and reader-thread handle are all absent.
C19_AfterStop ==
    StopReturned =>
        \A j \in 1..Len(op.stops) :
            LET s == op.stops[j]
                h == HandleById(processes, s.hid)
            IN /\ s.wait_ok => h.status = Stopped(s.code)
               /\ ~s.wait_ok => h.status = Crashed
               /\ ~is_running(h.status)
               /\ h.child = 0 /\ h.master_pty = 0
               /\ h.output_rx = 0 /\ h.reader_thread = 0

\* a forced stop of a Running handle has returned, waiting for the child having
\* failed
C19_Witness ==
    /\ pc = "ret"
    /\ op.name = "force_kill"
    /\ is_running(op.pre)
    /\ Len(op.stops) = 1
    /\ ~op.stops[1].wait_ok

\* C20: stop(graceful) on a handle that is not Running is a no-op: no signal is
\* sent, status, buffer and resource fields of every handle and every child are
\* as they were, and the call returns success.
C20_StopNotRunningNoOp ==
    [][((IsCall("stop") \/ IsCall("force_kill"))
            /\ ~is_running(processes[op'.h].status)) =>
          /\ processes' = processes
          /\ children' = children
          /\ op'.stops = <<>>
          /\ op'.result = "ok"]_vars

\* stop has returned from a call on a Crashed handle that still holds its
\* channel receiver
C20_Witness ==
    /\ pc = "ret"
    /\ op.name = "stop"
    /\ op.pre.tag = "Crashed"
    /\ processes[op.h].output_rx # 0
    /\ op.stops = <<>>

\* C21: when a child has exited on its own with code c and drain_output detects
\* it, the status becomes Stopped{exit_code: c}, for c = 0 and for c # 0 alike;
\* drain_output sets Crashed only where the child could not be waited on.
C21_ExitIsStopped ==
    [][IsCall("drain_output") =>
          \A h \in Handles :
              LET h2 == HandleById(processes', h.hid) IN
              (is_running(h.status) /\ h2.status # h.status) =>
                  /\ h.child # 0
                  /\ children[h.child].state = "zombie"
                  /\ h2.status = Stopped(children[h.child].code)]_vars

\* C22: whenever the wait for a child's exit itself returns an error, in the
\* wait() of stop or in the try_wait() of drain_output, the handle's status is
\* Crashed when the call returns, not Stopped and not Running.
C22_WaitErrorIsCrashed ==
    /\ StopReturned =>
          \A j \in 1..Len(op.stops) :
              ~op.stops[j].wait_ok =>
                  HandleById(processes, op.stops[j].hid).status = Crashed
    /\ (pc = "ret" /\ op.name = "drain_output") =>
          \A hid \in op.wait_errs : HandleById(processes, hid).status = Crashed

\* the chunks 1..n of child p, in the order its reader thread read them
AllOutput(p, n) == [c \in 1..n |-> <<p, c>>]

\* C23: once a child spawned by autostart has exited on its own with code 0 and
\* its reader thread has forwarded all of its output and ended, one drain_output
\* cycle (whose try_wait succeeds) leaves the handle Stopped{exit_code: 0} with
\* all of that output fed to its buffer, and leaves a handle that is NotStarted,
\* as one added with autostart = false is, as it was.
C23_OneDrainCycle ==
    [][IsCall("drain_output") =>
          \A h \in Handles :
              LET h2 == HandleById(processes', h.hid)
                  p == h.child
              IN /\ (/\ is_running(h.status)
                     /\ p # 0
                     /\ children[p].state = "zombie"
                     /\ children[p].code = 0
                     /\ children[p].thread = "ended"
                     /\ h.hid \notin op'.wait_errs)
                    => /\ h2.status = Stopped(0)
                       /\ FedOf(h2.screen, p) = AllOutput(p, children[p].nread)
                 /\ h.status = NotStarted => h2 = h]_vars

\* one drain_output cycle has found the exit of a child that printed two chunks,
\* and fed output, while another handle was never started
C23_Witness ==
    /\ pc = "ret"
    /\ op.name = "drain_output"
    /\ op.result = "true"
    /\ \E h \in Handles, h2 \in Handles :
          /\ h.hid \in op.exits
          /\ h.status = Stopped(0)
          /\ Len(h.screen.fed) >= 2
          /\ h2.status = NotStarted

\* seq lists the numbers of set S in ascending order, each once
AscendingListOf(seq, S) ==
    /\ \A i \in 1..Len(seq), j \in 1..Len(seq) : i < j => seq[i] < seq[j]
    /\ {seq[k] : k \in 1..Len(seq)} = S

\* the indices of cmd at which a number (a run of digits) begins
NumberStarts(cmd) ==
    {d \in 1..Len(cmd) : cmd[d] \in Digits /\ (d = 1 \/ cmd[d - 1] \notin Digits)}

\* the number at index d of cmd follows PORT= or localhost: directly, or follows
\* --port, --PORT or -p and whitespace
FollowsFlag(cmd, d) ==
    \/ \E w \in {PortEnv, Localhost} : StartsWith(cmd, d - Len(w), w)
    \/ \E sp \in 1..(d - 1) :
          /\ \A k \in (d - sp)..(d - 1) : cmd[k] \in Spaces
          /\ \E w \in {PortFlagLong, PortFlagUpper, PortFlagShort} :
                StartsWith(cmd, d - sp - Len(w), w)

\* the numbers of 2 to 5 digits and value >= 80 that follow a flag in cmd
NumbersAfterFlags(cmd) ==
    {v \in {Value(SubSeq(cmd, d, d + RunLen(cmd, d, Digits) - 1)) :
                d \in {e \in NumberStarts(cmd) :
                          /\ FollowsFlag(cmd, e)
                          /\ RunLen(cmd, e, Digits) \in 2..5}} :
        v >= 80}

\* the values from 80 to 65535 written by the first five digits, or by all if
\* they are fewer, of the numbers of 2 or more digits that follow a flag in cmd
CapturedAfterFlags(cmd) ==
    {v \in {Value(SubSeq(cmd, d, d + Min(RunLen(cmd, d, Digits), 5) - 1)) :
                d \in {e \in NumberStarts(cmd) :
                          /\ FollowsFlag(cmd, e)
                          /\ RunLen(cmd, e, Digits) >= 2}} :
        v >= 80 /\ v <= 65535}

PortOf(port) == {port[k] : k \in 1..Len(port)}

\* "node server.js --port 8080"
NodeServer ==
    <<"n", "o", "d", "e", " ", "s", "e", "r", "v", "e", "r", ".", "j", "s", " ",
      "-", "-", "p", "o", "r", "t", " ", "8", "0", "8", "0">>

\* the two configurations the claim names
PortExamples ==
    /\ extract_ports([port |-> <<>>, command |-> NodeServer]) = <<8080>>
    /\ extract_ports([port |-> <<3000>>, command |-> <<>>]) = <<3000>>

\* C24, every number of 2 to 5 digits counting: extract_ports(config) returns the
\* ascending, duplicate-free list of the explicit port (when set) and every
\* number of 2 to 5 digits and value >= 80 that follows --port/-p, PORT= or
\* localhost: in the command; "node server.js --port 8080" without a port field
\* gives [8080], and port 3000 alone gives [3000].
C24_ExtractPorts ==
    /\ PortExamples
    /\ pc = "ports" =>
          AscendingListOf(op.ports, PortOf(op.arg[1]) \cup NumbersAfterFlags(op.arg[2]))

\* C24, of the numbers a port can be: extract_ports(config) returns the
\* ascending, duplicate-free list of the explicit port (when set) and every value
\* from 80 to 65535 written by the first five digits (or by all, if fewer) of a
\* number of two or more digits that follows PORT= or localhost: directly or
\* follows --port, --PORT or -p and whitespace; the two examples give [8080]
\* and [3000].
C24_ExtractPortsU16 ==
    /\ PortExamples
    /\ pc = "ports" =>
          AscendingListOf(op.ports, PortOf(op.arg[1]) \cup CapturedAfterFlags(op.arg[2]))

\* extract_ports has returned two ports, the explicit one, pushed first, standing
\* after the one found in the command
C24_Witness ==
    /\ pc = "ports"
    /\ Len(op.ports) = 2
    /\ op.arg[1] # <<>>
    /\ op.ports[2] = op.arg[1][1]
    /\ op.ports[1] \in CapturedAfterFlags(op.arg[2])

\* how often e occurs in log
RECURSIVE Count(_, _)
Count(log, e) ==
    IF log = <<>> THEN 0
    ELSE (IF Head(log) = e THEN 1 ELSE 0) + Count(Tail(log), e)

\* C28: one stop call sends at most one terminate and at most one force_kill, to
\* the process group of the pid in the Running status; stop(true) sends terminate
\* first and, after the grace interval, force_kill only if the child is alive
\* still (a child that has exited by then gets no force_kill); stop(false) sends
\* force_kill only, without terminate and without the grace wait.
C28_SignalsOfOneStop ==
    \A j \in 1..Len(op.stops) :
        LET s == op.stops[j] IN
        /\ Count(s.log, "terminate") <= 1
        /\ Count(s.log, "force_kill") <= 1
        /\ s.pid = op.pre.pid \/ op.name = "drop"
        /\ s.graceful =>
              /\ First(s.log, "terminate") = 1
              /\ First(s.log, "sleep") = 2
              /\ Count(s.log, "force_kill") = 1 =>
                    /\ s.ignored
                    /\ First(s.log, "sleep") < First(s.log, "force_kill")
              /\ s.ignored => Count(s.log, "force_kill") = 1
        /\ ~s.graceful =>
              /\ First(s.log, "force_kill") = 1
              /\ Count(s.log, "terminate") = 0
              /\ Count(s.log, "sleep") = 0

\* C29: whenever a handle has an open PTY, the size of the PTY is the pane size
\* requested last (at construction or by the latest resize_pty), not the size
\* the buffer has grown to, after any sequence of resize, stop and spawn.
C29_PtySizeIsPaneSize ==
    \A h \in Handles :
        h.master_pty # 0 => children[h.master_pty].pty = app.pane

\* C30: restart() is stop(true) and then spawn(), and so is spawn()/start(index)
\* on a Running handle: between the two the previous child has been signalled
\* and reaped and no new child exists; on success the handle is Running with a
\* child spawned by this call; on a handle that is not Running no stop is made
\* and the call is the spawn alone.
C30_RestartStopsThenSpawns ==
    /\ pc = "spawn" =>
          /\ is_running(op.pre)
          /\ Len(op.stops) = 1
          /\ op.stops[1].graceful
          /\ op.stops[1].pid = op.pre.pid
          /\ First(op.stops[1].log, "terminate") = 1
          /\ children[op.pre.pid].state = "reaped"
          /\ \A p \in 1..Len(children) : p > op.pre.pid => children[p].owner # op.h
          /\ ~is_running(processes[op.h].status)
    /\ (pc = "ret" /\ op.name \in {"start", "restart"}) =>
          /\ is_running(op.pre) =>
                /\ Len(op.stops) = 1
                /\ op.stops[1].graceful
                /\ children[op.pre.pid].state = "reaped"
          /\ ~is_running(op.pre) => op.stops = <<>>
          /\ op.result = "ok" =>
                LET h == processes[op.h] IN
                /\ is_running(h.status)
                /\ h.child = h.status.pid
                /\ h.child = Len(children)
                /\ children[h.child].state = "alive"
                /\ children[h.child].owner = h.hid
                /\ is_running(op.pre) => op.pre.pid < h.child

\* restart has succeeded on a handle that was Running
C30_Witness ==
    /\ pc = "ret"
    /\ op.name = "restart"
    /\ op.result = "ok"
    /\ is_running(op.pre)
    /\ is_running(processes[op.h].status)

\* the step is the manager's stop_all at teardown
IsStopAll == pc = "idle" /\ pc' = "exited"

\* C27: a failure on one handle does not abort a bulk pass: check_autorestart
\* calls spawn on every autorestart handle that is Stopped or Crashed, and
\* stop_all stops every Running handle, whatever failed on the handles before
\* it; and a handle takes no status from another's failure: one on which no
\* spawn succeeded keeps its status in check_autorestart, and one that was not
\* Running keeps it in stop_all.
C27_BulkPassGoesOn ==
    [][/\ IsCall("check_autorestart") =>
            \A h \in Handles :
                /\ (h.config.autorestart /\ h.status.tag \in {"Stopped", "Crashed"})
                      => h.hid \in op'.attempted
                /\ h.hid \notin (op'.attempted \ op'.failed)
                      => HandleById(processes', h.hid).status = h.status
       /\ IsStopAll =>
            \A h \in Handles :
                /\ is_running(h.status) =>
                      /\ \E j \in 1..Len(op'.stops) : op'.stops[j].hid = h.hid
                      /\ ~is_running(HandleById(processes', h.hid).status)
                /\ ~is_running(h.status) => HandleById(processes', h.hid) = h]_vars

\* check_autorestart has returned with a failed spawn on one handle and a spawn
\* attempt on a handle that stands after it
C27_Witness ==
    /\ pc = "ret"
    /\ op.name = "check_autorestart"
    /\ \E i \in 1..Len(processes), j \in 1..Len(processes) :
          /\ i < j
          /\ processes[i].hid \in op.failed
          /\ processes[j].hid \in op.attempted

\* the loop of App::run has ended
LoopEnded == pc \in {"done", "exited"}

C26_AutoExit ==
    [][pc = "checked" =>
          /\ (pc' = "done") <=>
                \/ app.quit
                \/ /\ app.auto_exit
                   /\ Len(processes) > 0
                   /\ \A h \in Handles : ~is_running(h.status)
          /\ (pc' = "done" /\ (~app.auto_exit \/ Len(processes) = 0)) => app.quit]_vars

\* the loop has ended through auto-exit, no Quit action having been dispatched,
\* after a process of two had run
C26_Witness ==
    /\ pc = "done"
    /\ ~app.quit
    /\ app.auto_exit
    /\ Len(processes) = 2
    /\ \E p \in 1..Len(children) : children[p].state = "reaped"

\* the reader threads that have not returned yet
LiveThreads == {p \in 1..Len(children) : children[p].thread = "running"}

RunningHandles == {h \in Handles : is_running(h.status)}

C37_RunningIffChildIffMaster ==
    \A h \in Handles :
        /\ is_running(h.status) <=> h.child # 0
        /\ is_running(h.status) <=> h.master_pty # 0
        /\ is_running(h.status) => h.child = h.status.pid /\ h.master_pty = h.status.pid

\* drain_output has found the child of a handle exited, after a spawn had
\* failed on another handle: the first has neither child nor master, though
\* it has its channel still
C37_Witness ==
    /\ pc = "ret"
    /\ op.name = "drain_output"
    /\ \E h \in Handles :
          /\ h.hid \in op.exits
          /\ ~is_running(h.status)
          /\ h.child = 0
          /\ h.master_pty = 0
          /\ h.output_rx # 0
    /\ \E p \in 1..Len(children) : children[p].thread = "none"

\* the children of handle hid that are alive
LiveChildren(hid) ==
    {p \in 1..Len(children) : children[p].owner = hid /\ children[p].state = "alive"}

\* C39: each handle has at most one live child at any time: spawn creates a new
\* child only after the previous child of that handle is gone and reaped, for
\* any sequence of start, restart, check_autorestart and failed spawns.
C39_OneLiveChild ==
    /\ \A h \in Handles : Cardinality(LiveChildren(h.hid)) <= 1
    /\ \A p \in 1..Len(children), q \in 1..Len(children) :
          (p < q /\ children[p].owner = children[q].owner)
             => children[p].state = "reaped" \/ children[q].state = "reaped"

\* the child of the most recent successful spawn of handle hid (0: there is none)
LatestSpawned(hid) ==
    LET S == {p \in 1..Len(children) :
                children[p].owner = hid /\ children[p].thread # "none"}
    IN IF S = {} THEN 0 ELSE CHOOSE p \in S : \A q \in S : q <= p

\* what a step has fed to the screen of the handle at index i
NewlyFed(i) ==
    SubSeq(processes'[i].screen.fed,
           Len(processes[i].screen.fed) + 1, Len(processes'[i].screen.fed))

\* C38: after a respawn no chunk produced by a previous child of the handle is
\* fed to its buffer any more: whatever a step feeds comes from the channel of
\* the handle's most recent successful spawn, even while the reader thread of an
\* older child is alive still; and that channel is the only one of the handle's
\* children that is open.
C38_NoStaleOutput ==
    [][\A i \in 1..Len(processes) :
          /\ \A j \in 1..Len(NewlyFed(i)) :
                NewlyFed(i)[j][1] = LatestSpawned(processes[i].hid)
          /\ \A p \in 1..Len(children) :
                (children[p].owner = processes[i].hid /\ children[p].rx)
                   => p = LatestSpawned(processes[i].hid)]_vars

\* after a respawn the reader thread of the previous child has read a chunk that
\* was never fed, and a chunk of the new child has been fed
C38_Witness ==
    \E h \in Handles : \E p \in 1..Len(children), q \in 1..Len(children) :
        /\ p < q
        /\ children[p].owner = h.hid
        /\ children[q].owner = h.hid
        /\ children[p].nread > Len(FedOf(h.screen, p))
        /\ children[p].thread = "ended"
        /\ Len(FedOf(h.screen, q)) > 0

\* the chunks waiting in the channel of the handle at index i
Pending(i) ==
    IF processes[i].output_rx = 0 THEN <<>>
    ELSE children[processes[i].output_rx].queue

\* C33: drain_output returns true exactly when at least one chunk was taken
\* from a channel in that call, so a call that finds a child exited and no
\* output pending returns false; the manager's drain_output drains every handle,
\* those after one that had output too, and returns true exactly when one of
\* them had output.
C33_DrainResult ==
    [][IsCall("drain_output") =>
          /\ op'.result \in {"true", "false"}
          /\ (op'.result = "true") <=> (\E i \in 1..Len(processes) : Pending(i) # <<>>)
          /\ \A i \in 1..Len(processes) :
                /\ Len(NewlyFed(i)) = Len(Pending(i))
                /\ processes'[i].output_rx # 0 =>
                      children'[processes'[i].output_rx].queue = <<>>
                /\ drain_output(processes[i], children, TRUE).had_output
                      <=> Len(NewlyFed(i)) > 0]_vars

\* of two handles drain_output has found the child of one exited with no output
\* pending, and has returned false
C33_Witness ==
    /\ pc = "ret"
    /\ op.name = "drain_output"
    /\ op.result = "false"
    /\ op.exits # {}
    /\ Len(processes) = 2

\* the step is an add_process
IsAdd == pc = "new" /\ pc' = "new" /\ op'.name = "add"

\* C35: add_process appends exactly one handle at the end: the count grows by
\* one, the handles that were there keep their state and their order, and so do
\* their children; the new handle is Running if its config asks for autostart
\* and the spawn succeeded, and NotStarted with no resource if autostart is not
\* set or the spawn failed; add_process itself never fails.
C35_AddAppends ==
    [][IsAdd =>
          LET n == Len(processes)
              h == processes'[n + 1]
          IN /\ Len(processes') = n + 1
             /\ \A i \in 1..n : processes'[i] = processes[i]
             /\ \A p \in 1..Len(children) : children'[p] = children[p]
             /\ \A i \in 1..n : h.hid # processes[i].hid
             /\ op'.result = "ok"
             /\ h.hid \in (op'.attempted \ op'.failed)
                   => /\ is_running(h.status)
                      /\ h.child = Len(children')
                      /\ children'[h.child].owner = h.hid
             /\ h.hid \notin (op'.attempted \ op'.failed)
                   => /\ h.status = NotStarted
                      /\ h.child = 0 /\ h.master_pty = 0
                      /\ h.output_rx = 0 /\ h.reader_thread = 0
             /\ h.hid \notin op'.attempted => children' = children]_vars

\* a second process has been added whose autostart spawn failed, behind one that
\* was started when it was added
C35_Witness ==
    /\ pc = "new"
    /\ op.name = "add"
    /\ Len(processes) = 2
    /\ is_running(processes[1].status)
    /\ processes[2].hid \in op.failed
    /\ processes[2].status = NotStarted

\* the step is a call by index whose index is not below process_count()
IsCallBeyond(name) ==
    /\ IsCall(name)
    /\ op'.arg # <<>>
    /\ op'.arg[1] >= process_count(processes)

\* C34: start, stop, force_kill and restart with an index that is not below
\* process_count() return success and change nothing: every handle, the order
\* of the handles and every child are as they were.
C34_IndexBeyondIsNoOp ==
    [][\A name \in {"start", "stop", "force_kill", "restart"} :
          IsCallBeyond(name) =>
              /\ op'.result = "ok"
              /\ processes' = processes
              /\ children' = children
              /\ op'.attempted = {}
              /\ op'.stops = <<>>]_vars

\* restart has returned from an index beyond the last of two handles, one of
\* them Running
C34_Witness ==
    /\ pc = "ret"
    /\ op.name = "restart"
    /\ op.arg # <<>>
    /\ op.arg[1] >= process_count(processes)
    /\ process_count(processes) = 2
    /\ \E h \in Handles : is_running(h.status)

\* C40: in the application loop ui_state.selected_process is below
\* process_count() whenever process_count() > 0, after any sequence of ticks
\* (with their sort re-resolution) and of dispatched SelectNext, SelectPrev,
\* SelectIndex, start, stop, force-kill and restart actions.
C40_SelectionInRange ==
    process_count(processes) > 0 => app.selected_process < process_count(processes)

\* the sort of a tick has moved the selection to the last of two handles
C40_Witness ==
    /\ pc = "poll"
    /\ op.name = "sort_by_status"
    /\ process_count(processes) = 2
    /\ op.arg[1] = 0
    /\ op.value = 1
    /\ app.selected_process = 1

\* the bytes written so far to the PTY of child p
InputOf(kids, p) == kids[p].input

\* s is the beginning of t
IsPrefix(s, t) == Len(s) <= Len(t) /\ SubSeq(t, 1, Len(s)) = s

\* C36: write_input on a handle that is not Running writes nothing, changes no
\* state and returns success.  On a Running handle a call that succeeds has
\* forwarded exactly its bytes to the PTY of the handle's child, behind those of
\* the calls before it, and to no other; a call whose write fails returns the
\* error, has written at most a beginning of its bytes, and leaves the handle
\* and its status as they were.
C36_WriteInput ==
    [][IsCall("write_input") =>
          LET h == processes[op'.h]
              data == op'.arg[1]
              pid == h.status.pid
          IN /\ processes' = processes
             /\ ~is_running(h.status) =>
                   /\ op'.result = "ok"
                   /\ children' = children
             /\ is_running(h.status) =>
                   /\ \A p \in 1..Len(children) :
                         p # pid => children'[p] = children[p]
                   /\ children'[pid] =
                         [children[pid] EXCEPT !.input = InputOf(children', pid)]
                   /\ op'.result = "ok" =>
                         InputOf(children', pid) = InputOf(children, pid) \o data
                   /\ op'.result = "err" =>
                         /\ IsPrefix(InputOf(children, pid), InputOf(children', pid))
                         /\ IsPrefix(InputOf(children', pid),
                                     InputOf(children, pid) \o data)
                         /\ InputOf(children', pid) # InputOf(children, pid) \o data]_vars

\* a second write_input on a Running handle has added its byte behind the byte
\* of the first
C36_Witness ==
    /\ pc = "ret"
    /\ op.name = "write_input"
    /\ op.result = "ok"
    /\ is_running(processes[op.h].status)
    /\ op.arg[1] = <<"b">>
    /\ InputOf(children, processes[op.h].status.pid) = <<"a", "b">>

\* the reader thread of child p is live though the child is gone
ReadsClosedPty(p) ==
    /\ p \in 1..Len(children)
    /\ children[p].thread = "running"
    /\ children[p].state # "alive"

\* the reader thread of child p has returned
ThreadEnded(p) == p \in 1..Len(children) /\ children[p].thread = "ended"

\* C32: every reader thread terminates once its child has exited and its PTY
\* has closed, unless the supervisor itself exits first: the thread returns on a
\* read of zero bytes, on a read error, or on a send that fails because the
\* handle has dropped the receiver; a thread that has returned never reads
\* again; and no call of the handle waits for it (the handle's fields never
\* depend on the thread's state).
C32_ReaderTerminates ==
    /\ \A p \in 1..MaxSpawns :
          ReadsClosedPty(p) ~> (ThreadEnded(p) \/ pc = "exited")
    /\ [][\A p \in 1..Len(children) :
             children[p].thread = "ended" =>
                 /\ children'[p].thread = "ended"
                 /\ children'[p].nread = children[p].nread
                 /\ children'[p].queue = children[p].queue
                    \/ children'[p].queue = <<>>]_vars

\* stop has returned while the reader thread of the child it reaped has not, and
\* nothing of the handle's refers to that thread any more
C32_Witness ==
    /\ pc = "ret"
    /\ op.name = "stop"
    /\ Len(op.stops) = 1
    /\ ReadsClosedPty(op.stops[1].pid)
    /\ processes[op.h].reader_thread = 0

====
